---- MODULE Spec2Model ----
(***************************************************************************)
(* A model of the LA parcel and zoning API (la_zoning_api): the parcel     *)
(* summarizer (scraper_pdb.build_summary), the zoning clients              *)
(* (scraper_zoning), the address resolver (ain_resolver) and the FastAPI   *)
(* endpoints (main).                                                       *)
(*                                                                         *)
(* Python strings are sequences of one-character strings, so that strip,   *)
(* int(), upper(), startswith and sorted are computed, not assumed.  A     *)
(* JSON value is a record [t, s, n]: t is its kind ("missing" for an       *)
(* absent key, "null", "str", "int"), s its characters, n its number.      *)
(***************************************************************************)
EXTENDS Integers, Sequences, FiniteSets, TLC

\* ------------------------------------------------------------------------
\* Bounds of the model
\* ------------------------------------------------------------------------

\* The longest subpart list of a parcel.
MaxSubParts == 2

\* ------------------------------------------------------------------------
\* JSON values and Python string primitives
\* ------------------------------------------------------------------------

JMissing == [t |-> "missing", s |-> <<>>, n |-> 0]

JNull == [t |-> "null", s |-> <<>>, n |-> 0]

JStr(s) == [t |-> "str", s |-> s, n |-> 0]

JInt(n) == [t |-> "int", s |-> <<>>, n |-> n]

\* dict.get(key, default): the default only when the key is absent.
GetOr(v, default) == IF v.t = "missing" THEN default ELSE v

\* dict.get(key): None when the key is absent.
Get(v) == GetOr(v, JNull)

\* Python truthiness of a JSON scalar: None, "" and 0 are falsy.
Truthy(v) ==
    CASE v.t = "str" -> v.s # <<>>
      [] v.t = "int" -> v.n # 0
      [] OTHER -> FALSE

\* x or y
PyOr(v, w) == IF Truthy(v) THEN v ELSE w

Digits == <<"0", "1", "2", "3", "4", "5", "6", "7", "8", "9">>

IsDigit(c) == \E i \in 1..10 : Digits[i] = c

DigitVal(c) == (CHOOSE i \in 1..10 : Digits[i] = c) - 1

IsSpace(c) == c = " "

RECURSIVE NatToStr(_)
NatToStr(n) == IF n < 10 THEN <<Digits[n + 1]>> ELSE NatToStr(n \div 10) \o <<Digits[(n % 10) + 1]>>

\* str(x) of a JSON scalar.
PyStr(v) ==
    CASE v.t = "str" -> v.s
      [] v.t = "int" -> IF v.n < 0 THEN <<"-">> \o NatToStr(-v.n) ELSE NatToStr(v.n)
      [] OTHER -> <<"N", "o", "n", "e">>

RECURSIVE LStrip(_)
LStrip(s) == IF s # <<>> /\ IsSpace(Head(s)) THEN LStrip(Tail(s)) ELSE s

RECURSIVE RStrip(_)
RStrip(s) == IF s # <<>> /\ IsSpace(s[Len(s)]) THEN RStrip(SubSeq(s, 1, Len(s) - 1)) ELSE s

\* str.strip()
Strip(s) == RStrip(LStrip(s))

RECURSIVE DigitsToNat(_, _)
DigitsToNat(s, acc) == IF s = <<>> THEN acc ELSE DigitsToNat(Tail(s), acc * 10 + DigitVal(Head(s)))

\* int(s) of a string: surrounding whitespace, an optional sign, then digits;
\* anything else raises ValueError (ok = FALSE).
PyInt(s) ==
    LET u == Strip(s)
        signed == u # <<>> /\ Head(u) \in {"+", "-"}
        body == IF signed THEN Tail(u) ELSE u
        valid == body # <<>> /\ \A i \in 1..Len(body) : IsDigit(body[i])
        mag == IF valid THEN DigitsToNat(body, 0) ELSE 0
    IN [ok |-> valid, n |-> IF signed /\ Head(u) = "-" THEN -mag ELSE mag]

LowerCase ==
    <<"a", "b", "c", "d", "e", "f", "g", "h", "i", "j", "k", "l", "m",
      "n", "o", "p", "q", "r", "s", "t", "u", "v", "w", "x", "y", "z">>

UpperCase ==
    <<"A", "B", "C", "D", "E", "F", "G", "H", "I", "J", "K", "L", "M",
      "N", "O", "P", "Q", "R", "S", "T", "U", "V", "W", "X", "Y", "Z">>

IsLower(c) == \E i \in 1..26 : LowerCase[i] = c

IsUpper(c) == \E i \in 1..26 : UpperCase[i] = c

\* Code points of the characters the model uses (Python compares strings by
\* code point).
CharCode(c) ==
    CASE c = " " -> 32
      [] c = "%" -> 37
      [] c = "'" -> 39
      [] c = "+" -> 43
      [] c = "," -> 44
      [] c = "-" -> 45
      [] c = "." -> 46
      [] IsDigit(c) -> 48 + DigitVal(c)
      [] IsUpper(c) -> 64 + (CHOOSE i \in 1..26 : UpperCase[i] = c)
      [] IsLower(c) -> 96 + (CHOOSE i \in 1..26 : LowerCase[i] = c)
      [] OTHER -> 63

\* str.upper()
Upper(s) ==
    [i \in 1..Len(s) |->
        IF IsLower(s[i]) THEN UpperCase[CHOOSE k \in 1..26 : LowerCase[k] = s[i]] ELSE s[i]]

\* s.startswith(prefix)
RECURSIVE StartsWith(_, _)
StartsWith(s, prefix) ==
    IF prefix = <<>> THEN TRUE
    ELSE IF s = <<>> THEN FALSE
    ELSE Head(s) = Head(prefix) /\ StartsWith(Tail(s), Tail(prefix))

\* s.replace(old, new), old a single character
RECURSIVE Replace(_, _, _)
Replace(s, old, new) ==
    IF s = <<>> THEN <<>>
    ELSE (IF Head(s) = old THEN new ELSE <<Head(s)>>) \o Replace(Tail(s), old, new)

\* s < t for Python strings.
RECURSIVE StrLess(_, _)
StrLess(s, t) ==
    IF t = <<>> THEN FALSE
    ELSE IF s = <<>> THEN TRUE
    ELSE IF Head(s) # Head(t) THEN CharCode(Head(s)) < CharCode(Head(t))
    ELSE StrLess(Tail(s), Tail(t))

\* sep.join(parts)
RECURSIVE Join(_, _)
Join(sep, parts) ==
    IF parts = <<>> THEN <<>>
    ELSE IF Len(parts) = 1 THEN parts[1]
    ELSE parts[1] \o sep \o Join(sep, Tail(parts))

RECURSIVE NonEmpty(_)
NonEmpty(parts) ==
    IF parts = <<>> THEN <<>>
    ELSE IF Head(parts) = <<>> THEN NonEmpty(Tail(parts))
    ELSE <<Head(parts)>> \o NonEmpty(Tail(parts))

\* ------------------------------------------------------------------------
\* scraper_pdb.build_summary
\* ------------------------------------------------------------------------

\* A mapping none of whose keys is present.
EmptySubPart ==
    [SqftMain |-> JMissing, YearBuilt |-> JMissing, NumOfUnits |-> JMissing,
     NumOfBeds |-> JMissing, NumOfBaths |-> JMissing, DesignType |-> JMissing,
     DesignType1stDigit |-> JMissing, DesignType2ndDigit |-> JMissing,
     DesignType3rdDigit |-> JMissing, DesignType4thDigit |-> JMissing]

NoSubParts == [t |-> "missing", items |-> <<>>]

NullSubParts == [t |-> "null", items |-> <<>>]

SubPartList(items) == [t |-> "list", items |-> items]

EmptyParcel ==
    [AIN |-> JMissing, Latitude |-> JMissing, Longitude |-> JMissing,
     SitusStreet |-> JMissing, SitusCity |-> JMissing, SitusZipCode |-> JMissing,
     UseType |-> JMissing, ZoningPDB |-> JMissing, LegalDescription |-> JMissing,
     QualityClass |-> JMissing, SqftMain |-> JMissing, NumOfUnits |-> JMissing,
     NumOfBeds |-> JMissing, NumOfBaths |-> JMissing, YearBuilt |-> JMissing,
     LandWidth |-> JMissing, LandDepth |-> JMissing, SubParts |-> NoSubParts]

\* The body of the assessor's answer: the "Parcel" key absent, null, or an object.
RawNoParcel == [Parcel |-> [t |-> "missing", o |-> EmptyParcel]]

RawNullParcel == [Parcel |-> [t |-> "null", o |-> EmptyParcel]]

RawParcel(p) == [Parcel |-> [t |-> "obj", o |-> p]]

\* (x.get(k) or "").strip() raises AttributeError on a truthy non-string.
StripRaises(v) == Truthy(Get(v)) /\ Get(v).t # "str"

StripField(v) == Strip(PyOr(Get(v), JStr(<<>>)).s)

\* int(str(sp.get(k, "0")).strip() or "0"), a failed parse counting zero.
ParseCount(v) ==
    LET st == Strip(PyStr(GetOr(v, JStr(<<"0">>))))
        r == PyInt(IF st = <<>> THEN <<"0">> ELSE st)
    IN IF r.ok THEN r.n ELSE 0

\* yb = (sp.get("YearBuilt") or "").strip(); if yb: year_built_set.add(yb)
MutYearBuiltOfUnstripped(sp) ==
    LET yb == PyOr(Get(sp.YearBuilt), JStr(<<>>)).s
    IN IF yb # <<>> THEN {JStr(yb)} ELSE {}

YearBuiltOf(sp) ==
    LET yb == StripField(sp.YearBuilt)
    IN IF yb # <<>> THEN {JStr(yb)} ELSE {}

DesignTypeOf(sp) ==
    [design_type |-> Get(sp.DesignType), d1 |-> Get(sp.DesignType1stDigit),
     d2 |-> Get(sp.DesignType2ndDigit), d3 |-> Get(sp.DesignType3rdDigit),
     d4 |-> Get(sp.DesignType4thDigit)]

InitialAggregates ==
    [total_sqft_pdb |-> JInt(0), year_built_set |-> {}, total_units |-> JInt(0),
     total_beds |-> JInt(0), total_baths |-> JInt(0), design_types |-> <<>>]

\* One pass of "for sp in subparts".
LoopBody(acc, sp) ==
    [total_sqft_pdb |-> JInt(acc.total_sqft_pdb.n + ParseCount(sp.SqftMain)),
     year_built_set |-> acc.year_built_set \cup YearBuiltOf(sp),
     total_units |-> JInt(acc.total_units.n + ParseCount(sp.NumOfUnits)),
     total_beds |-> JInt(acc.total_beds.n + ParseCount(sp.NumOfBeds)),
     total_baths |-> JInt(acc.total_baths.n + ParseCount(sp.NumOfBaths)),
     design_types |-> Append(acc.design_types, DesignTypeOf(sp))]

RECURSIVE SubPartsLoop(_, _)
SubPartsLoop(subparts, acc) ==
    IF subparts = <<>> THEN acc
    ELSE SubPartsLoop(Tail(subparts), LoopBody(acc, Head(subparts)))

\* if not subparts: the parcel-level scalars replace the aggregates.
MutFallbackNever(p, subparts, acc) == acc

MutFallbackAlways(p, subparts, acc) ==
    [acc EXCEPT !.total_sqft_pdb = PyOr(Get(p.SqftMain), JInt(0)),
                !.total_units = PyOr(Get(p.NumOfUnits), JInt(0)),
                !.total_beds = PyOr(Get(p.NumOfBeds), JInt(0)),
                !.total_baths = PyOr(Get(p.NumOfBaths), JInt(0))]

Fallback(p, subparts, acc) ==
    IF subparts = <<>>
    THEN [acc EXCEPT !.total_sqft_pdb = PyOr(Get(p.SqftMain), JInt(0)),
                     !.total_units = PyOr(Get(p.NumOfUnits), JInt(0)),
                     !.total_beds = PyOr(Get(p.NumOfBeds), JInt(0)),
                     !.total_baths = PyOr(Get(p.NumOfBaths), JInt(0)),
                     !.year_built_set =
                         IF Truthy(Get(p.YearBuilt))
                         THEN acc.year_built_set \cup {Get(p.YearBuilt)}
                         ELSE acc.year_built_set]
    ELSE acc

\* sorted(list(year_built_set)) if year_built_set else []
RECURSIVE YearBuiltList(_)
YearBuiltList(S) ==
    IF S = {} THEN <<>>
    ELSE LET m == CHOOSE x \in S : \A y \in S \ {x} : StrLess(x.s, y.s)
         IN <<m>> \o YearBuiltList(S \ {m})

\* ", ".join of the non-empty stripped street, city and zip code.
SitusAddress(p) ==
    Join(<<",", " ">>,
         NonEmpty(<<StripField(p.SitusStreet), StripField(p.SitusCity),
                    StripField(p.SitusZipCode)>>))

\* f"{land_width}' x {land_depth}'" if land_width and land_depth else None
LandDimensions(p) ==
    IF Truthy(Get(p.LandWidth)) /\ Truthy(Get(p.LandDepth))
    THEN JStr(PyStr(p.LandWidth) \o <<"'", " ", "x", " ">> \o PyStr(p.LandDepth) \o <<"'">>)
    ELSE JNull

\* p.get("SubParts", []) or []
SubPartsOf(p) == IF p.SubParts.t = "list" THEN p.SubParts.items ELSE <<>>

\* The calls of build_summary that raise AttributeError: a null parcel, or
\* .strip() on a truthy value that is not a string.
BuildSummaryRaises(raw) ==
    \/ raw.Parcel.t = "null"
    \/ /\ raw.Parcel.t = "obj"
       /\ \/ StripRaises(raw.Parcel.o.SitusStreet)
          \/ StripRaises(raw.Parcel.o.SitusCity)
          \/ StripRaises(raw.Parcel.o.SitusZipCode)
          \/ \E i \in 1..Len(SubPartsOf(raw.Parcel.o)) :
                StripRaises(SubPartsOf(raw.Parcel.o)[i].YearBuilt)

\* p = raw.get("Parcel", {})
ParcelOf(raw) == IF raw.Parcel.t = "obj" THEN raw.Parcel.o ELSE EmptyParcel

\* The aggregates after the loop and the fallback.
Aggregates(p) == Fallback(p, SubPartsOf(p), SubPartsLoop(SubPartsOf(p), InitialAggregates))

\* The final summary dict.
SummaryRecord(p, agg) ==
    [ain |-> Get(p.AIN),
     latitude |-> Get(p.Latitude),
     longitude |-> Get(p.Longitude),
     situs_address |-> JStr(SitusAddress(p)),
     use_type |-> Get(p.UseType),
     zoning |-> Get(p.ZoningPDB),
     legal_description |-> Get(p.LegalDescription),
     quality_class |-> Get(p.QualityClass),
     total_sqft_pdb |-> agg.total_sqft_pdb,
     land_width_depth |-> LandDimensions(p),
     year_built_list |-> YearBuiltList(agg.year_built_set),
     num_units |-> agg.total_units,
     beds |-> agg.total_beds,
     baths |-> agg.total_baths,
     subparts_design_types |-> agg.design_types]

SummaryOf(raw) == SummaryRecord(ParcelOf(raw), Aggregates(ParcelOf(raw)))

\* build_summary(raw): the summary in val, or the exception it raises.
build_summary(raw) ==
    IF BuildSummaryRaises(raw)
    THEN [exc |-> "AttributeError", val |-> <<>>]
    ELSE [exc |-> "none", val |-> <<SummaryOf(raw)>>]

\* ------------------------------------------------------------------------
\* ain_resolver.resolve_address_to_ain
\* ------------------------------------------------------------------------

\* A row of the open-data answer: a mapping, or a value that is no mapping (a
\* list of cells), on which row.get raises AttributeError.
Row(h, s, a) == [t |-> "obj", house_number |-> h, street_name |-> s, ain |-> a]

NotARow == [t |-> "list", house_number |-> JMissing, street_name |-> JMissing, ain |-> JMissing]

\* The "rows" key of the answer: absent, null, or a list.
NoRows == [t |-> "missing", items |-> <<>>]

NullRows == [t |-> "null", items |-> <<>>]

RowList(items) == [t |-> "list", items |-> items]

\* What the GET does: it raises (connection error, timeout), answers a body
\* that is not JSON, JSON that is no mapping, or a mapping.
OpenDataRaises == [kind |-> "raises", rows |-> NoRows]

OpenDataBadJson == [kind |-> "badjson", rows |-> NoRows]

OpenDataNotAMapping == [kind |-> "notmapping", rows |-> NoRows]

OpenDataAnswer(rows) == [kind |-> "ok", rows |-> rows]

\* params = {"house_number": house_number, "street_name": street_name.replace(" ", "%20")}
ResolverParams(house_number, street_name) ==
    [house_number |-> house_number, street_name |-> Replace(street_name, " ", <<"%", "2", "0">>)]

\* row.get("house_number") == house_number and
\* row.get("street_name", "").upper().startswith(street_name.upper()):
\* "raise" when the row is no mapping, or the house number is equal and the
\* street name is not a string.
RowTest(row, house_number, street_name) ==
    IF row.t # "obj" THEN "raise"
    ELSE IF Get(row.house_number) # JStr(house_number) THEN "skip"
    ELSE IF GetOr(row.street_name, JStr(<<>>)).t # "str" THEN "raise"
    ELSE IF StartsWith(Upper(GetOr(row.street_name, JStr(<<>>)).s), Upper(street_name))
    THEN "match" ELSE "skip"

\* for row in data.get("rows", []): ... return row.get("ain")
RECURSIVE ScanRows(_, _, _)
ScanRows(rows, house_number, street_name) ==
    IF rows = <<>> THEN [exc |-> "none", value |-> JNull]
    ELSE LET test == RowTest(Head(rows), house_number, street_name)
         IN CASE test = "raise" -> [exc |-> "AttributeError", value |-> JNull]
              [] test = "match" -> [exc |-> "none", value |-> Get(Head(rows).ain)]
              [] OTHER -> ScanRows(Tail(rows), house_number, street_name)

\* The body of the try block: the exception it raises, or the value it returns
\* (falling out of the loop leads to the final "return None").
TryBlock(house_number, street_name, answer) ==
    CASE answer.kind = "raises" -> [exc |-> "ConnectionError", value |-> JNull]
      [] answer.kind = "badjson" -> [exc |-> "JSONDecodeError", value |-> JNull]
      [] answer.kind = "notmapping" -> [exc |-> "AttributeError", value |-> JNull]
      [] answer.rows.t = "null" -> [exc |-> "TypeError", value |-> JNull]
      [] OTHER -> ScanRows(answer.rows.items, house_number, street_name)

\* except: pass, then return None
MutExceptNarrow(outcome) ==
    IF outcome.exc \in {"ConnectionError", "JSONDecodeError"}
    THEN [exc |-> "none", value |-> JNull]
    ELSE outcome

ExceptPass(outcome) ==
    IF outcome.exc # "none" THEN [exc |-> "none", value |-> JNull] ELSE outcome

resolve_address_to_ain(house_number, street_name, answer) ==
    ExceptPass(TryBlock(house_number, street_name, answer))

\* ------------------------------------------------------------------------
\* scraper_zoning: fetch_parcel_detail, fetch_zoning, fetch_zoning_by_ain
\* ------------------------------------------------------------------------

\* A feature of the GIS answer: its "attributes" key absent, or a mapping in
\* which each of the four fields is a JSON value (JMissing when absent).
Attributes(z, d, c, u) == [t |-> "obj", ZONE |-> z, Z_DESC |-> d, Z_CATEGORY |-> c, TITLE_22 |-> u]

NoAttributes == [t |-> "missing", ZONE |-> JMissing, Z_DESC |-> JMissing, Z_CATEGORY |-> JMissing, TITLE_22 |-> JMissing]

Feature(attrs) == [attributes |-> attrs]

\* The "features" key of the GIS answer: absent, null, or a list.
NoFeatures == [t |-> "missing", items |-> <<>>]

NullFeatures == [t |-> "null", items |-> <<>>]

FeatureList(items) == [t |-> "list", items |-> items]

\* What a GET does: "transport" (no answer: connection error, timeout),
\* "status" (an answer with a 4xx/5xx status), "badjson" (a body that is not
\* JSON), or "ok" with the assessor's body or the GIS features.
Answer(kind, body, features) == [kind |-> kind, body |-> body, features |-> features]

AssessorAnswer(body) == Answer("ok", body, NoFeatures)

GisAnswer(features) == Answer("ok", RawNoParcel, features)

TransportFailure == Answer("transport", RawNoParcel, NoFeatures)

ErrorStatus == Answer("status", RawNoParcel, NoFeatures)

BadJson == Answer("badjson", RawNoParcel, NoFeatures)

\* requests.get(...); r.raise_for_status(); r.json(): the exception raised.
RequestException(answer) ==
    CASE answer.kind = "transport" -> "ConnectionError"
      [] answer.kind = "status" -> "HTTPError"
      [] answer.kind = "badjson" -> "JSONDecodeError"
      [] OTHER -> "none"

\* fetch_parcel_detail(ain), of scraper_pdb and of scraper_zoning alike.
fetch_parcel_detail(answer) ==
    IF RequestException(answer) # "none"
    THEN [exc |-> RequestException(answer), val |-> <<>>]
    ELSE [exc |-> "none", val |-> <<answer.body>>]

\* features = data.get("features", []); if not features: return None
FeaturesOf(answer) == IF answer.features.t = "list" THEN answer.features.items ELSE <<>>

\* The mapping fetch_zoning returns from attrs = features[0].get("attributes", {}).
ZoningInfo(attrs) ==
    [zone |-> Get(attrs.ZONE),
     zone_description |-> Get(attrs.Z_DESC),
     zone_category |-> Get(attrs.Z_CATEGORY),
     title_22_url |-> Get(attrs.TITLE_22)]

\* Which feature's attributes are read: features[0].
MutLastFeature(features) == features[Len(features)]

FirstFeature(features) == features[1]

\* fetch_zoning(lat, lon): ret is <<>> for None, <<mapping>> otherwise.
fetch_zoning(answer) ==
    IF RequestException(answer) # "none"
    THEN [exc |-> RequestException(answer), ret |-> <<>>]
    ELSE IF FeaturesOf(answer) = <<>>
    THEN [exc |-> "none", ret |-> <<>>]
    ELSE [exc |-> "none", ret |-> <<ZoningInfo(FirstFeature(FeaturesOf(answer)).attributes)>>]

\* One external call, as the log keeps it: where it went, what was asked
\* (the AIN, or the point as "geometry": lon,lat), and what came back.
AssessorCall(ain, answer) == [to |-> "assessor", ain |-> ain, lat |-> JNull, lon |-> JNull, answer |-> answer]

GisCall(lat, lon, answer) == [to |-> "gis", ain |-> <<>>, lat |-> lat, lon |-> lon, answer |-> answer]

\* if lat is None or lon is None: raise ValueError
MutMissingCoordinatesFalsy(lat, lon) == ~Truthy(lat) \/ ~Truthy(lon)

MissingCoordinates(lat, lon) == lat.t = "null" \/ lon.t = "null"

\* The result mapping of fetch_zoning_by_ain.
MutZoningResultZoneOnly(ain, parcel, zoning_info) ==
    [ain |-> PyOr(Get(parcel.AIN), JStr(ain)),
     situs_address |-> JStr(SitusAddress(parcel)),
     latitude |-> Get(parcel.Latitude),
     longitude |-> Get(parcel.Longitude),
     use_type |-> Get(parcel.UseType),
     assessor_zoning_pdb |-> Get(parcel.ZoningPDB),
     znet_zone |-> IF zoning_info # <<>> THEN zoning_info[1].zone ELSE JNull,
     znet_zone_description |-> JNull,
     znet_zone_category |-> JNull,
     znet_title_22_url |-> JNull]

ZoningResult(ain, parcel, zoning_info) ==
    [ain |-> PyOr(Get(parcel.AIN), JStr(ain)),
     situs_address |-> JStr(SitusAddress(parcel)),
     latitude |-> Get(parcel.Latitude),
     longitude |-> Get(parcel.Longitude),
     use_type |-> Get(parcel.UseType),
     assessor_zoning_pdb |-> Get(parcel.ZoningPDB),
     znet_zone |-> IF zoning_info # <<>> THEN zoning_info[1].zone ELSE JNull,
     znet_zone_description |-> IF zoning_info # <<>> THEN zoning_info[1].zone_description ELSE JNull,
     znet_zone_category |-> IF zoning_info # <<>> THEN zoning_info[1].zone_category ELSE JNull,
     znet_title_22_url |-> IF zoning_info # <<>> THEN zoning_info[1].title_22_url ELSE JNull]

\* An exception leaving fetch_zoning_by_ain, and its return, each with the
\* calls made so far.
Raised(exc, calls) == [exc |-> exc, val |-> <<>>, calls |-> calls]

Returned(val, calls) == [exc |-> "none", val |-> <<val>>, calls |-> calls]

\* zoning_info = fetch_zoning(lat, lon), then the result mapping.
ZoningStep(ain, parcel, zoned, calls) ==
    IF zoned.exc # "none"
    THEN Raised(zoned.exc, calls)
    ELSE Returned(ZoningResult(ain, parcel, zoned.ret), calls)

\* From parcel = raw.get("Parcel", {}) on: the coordinate check, the address,
\* the zoning query.
ParcelStep(ain, parcelIsNull, parcel, first, gis) ==
    IF parcelIsNull
    THEN Raised("AttributeError", first)
    ELSE IF MissingCoordinates(Get(parcel.Latitude), Get(parcel.Longitude))
    THEN Raised("ValueError", first)
    ELSE IF \/ StripRaises(parcel.SitusStreet)
            \/ StripRaises(parcel.SitusCity)
            \/ StripRaises(parcel.SitusZipCode)
    THEN Raised("AttributeError", first)
    ELSE ZoningStep(ain, parcel, fetch_zoning(gis),
                    Append(first, GisCall(Get(parcel.Latitude), Get(parcel.Longitude), gis)))

\* After raw = fetch_parcel_detail(ain).
FetchedStep(ain, fetched, first, gis) ==
    IF fetched.exc # "none"
    THEN Raised(fetched.exc, first)
    ELSE ParcelStep(ain, fetched.val[1].Parcel.t = "null", ParcelOf(fetched.val[1]), first, gis)

\* fetch_zoning_by_ain(ain), given what the assessor answers and what the GIS
\* service would answer: the exception or the result, and the calls made.
fetch_zoning_by_ain(ain, assessor, gis) ==
    FetchedStep(ain, fetch_parcel_detail(assessor), <<AssessorCall(ain, assessor)>>, gis)

\* ------------------------------------------------------------------------
\* main: the endpoints
\* ------------------------------------------------------------------------

\* Python's exception classes: requests.HTTPError is what raise_for_status
\* raises; a JSON decoding error is a ValueError; a connection error is neither.
IsHTTPError(exc) == exc = "HTTPError"

IsValueError(exc) == exc \in {"ValueError", "JSONDecodeError"}

\* What an endpoint function does: it returns body (status 200), or raises
\* HTTPException(status_code, detail).
Returns(body, calls) == [status |-> 200, body |-> <<body>>, detail |-> <<>>, calls |-> calls]

HTTPException(status, detail, calls) == [status |-> status, body |-> <<>>, detail |-> detail, calls |-> calls]

\* except requests.HTTPError -> 502; except Exception -> 500
ParcelErrorStatus(exc) == IF IsHTTPError(exc) THEN 502 ELSE 500

\* except requests.HTTPError -> 502; except ValueError -> 400; except Exception -> 500
ZoningErrorStatus(exc) ==
    IF IsHTTPError(exc) THEN 502
    ELSE IF IsValueError(exc) THEN 400
    ELSE 500

\* "if not summary" / "if not data": a mapping is falsy only when it has no key.
IsEmptyMapping(m) == DOMAIN m = {}

\* summary = scraper_pdb.build_summary(raw), when fetch_parcel_detail returned.
BuiltFrom(fetched) ==
    IF fetched.exc = "none" THEN build_summary(fetched.val[1])
    ELSE [exc |-> fetched.exc, val |-> <<>>]

\* The except clauses, the "if not summary" test and the return.
ParcelOutcome(built, calls) ==
    IF built.exc # "none"
    THEN HTTPException(ParcelErrorStatus(built.exc), <<built.exc>>, calls)
    ELSE IF IsEmptyMapping(built.val[1])
    THEN HTTPException(404, <<"No parcel data found for this AIN.">>, calls)
    ELSE Returns(built.val[1], calls)

\* get_parcel_summary(ain)
get_parcel_summary(ain, assessor) ==
    ParcelOutcome(BuiltFrom(fetch_parcel_detail(assessor)), <<AssessorCall(ain, assessor)>>)

\* The except clauses, the "if not data" test and the return.
ZoningOutcome(data) ==
    IF data.exc # "none"
    THEN HTTPException(ZoningErrorStatus(data.exc), <<data.exc>>, data.calls)
    ELSE IF IsEmptyMapping(data.val[1])
    THEN HTTPException(404, <<"No zoning data found for this AIN.">>, data.calls)
    ELSE Returns(data.val[1], data.calls)

\* get_zoning_summary(ain)
get_zoning_summary(ain, assessor, gis) == ZoningOutcome(fetch_zoning_by_ain(ain, assessor, gis))

\* The parcel step, then the zoning step, the zoning step run whatever the
\* parcel step did.
MutCombinedOutcomeContinues(ain, parcel, zoning) ==
    IF parcel.status # 200
    THEN HTTPException(parcel.status, parcel.detail, parcel.calls \o zoning.calls)
    ELSE IF zoning.status # 200
    THEN HTTPException(zoning.status, zoning.detail, parcel.calls \o zoning.calls)
    ELSE Returns([ain |-> ain, parcel |-> parcel.body[1], zoning |-> zoning.body[1]],
                 parcel.calls \o zoning.calls)

\* The parcel step, then the zoning step; an HTTPException of either ends the
\* request, and the zoning step is not started when the parcel step raised.
CombinedOutcome(ain, parcel, zoning) ==
    IF parcel.status # 200 THEN parcel
    ELSE IF zoning.status # 200
    THEN HTTPException(zoning.status, zoning.detail, parcel.calls \o zoning.calls)
    ELSE Returns([ain |-> ain, parcel |-> parcel.body[1], zoning |-> zoning.body[1]],
                 parcel.calls \o zoning.calls)

\* get_combined(ain)
get_combined(ain, assessor1, assessor2, gis) ==
    CombinedOutcome(ain, get_parcel_summary(ain, assessor1), get_zoning_summary(ain, assessor2, gis))

\* str(e) of an HTTPException: "<status_code>: <detail>".
ExceptionText(e) == NatToStr(e.status) \o <<":", " ">> \o e.detail

\* The entries of combo_batch's results. parcel and zoning hold <<summary>>, or
\* <<>> for None; error is <<>> when the entry has no "error" key, <<str(e)>>
\* otherwise.
SuccessEntry(ain, parcel, zoning) ==
    [ain |-> ain, parcel |-> <<parcel.body[1]>>, zoning |-> <<zoning.body[1]>>, error |-> <<>>]

ErrorEntry(ain, e) == [ain |-> ain, parcel |-> <<>>, zoning |-> <<>>, error |-> <<ExceptionText(e)>>]

\* The try / except of one pass of combo_batch's loop: the results after it,
\* and the calls made.
MutBatchTrySkipsFailure(results, ain, parcel, zoning) ==
    IF parcel.status # 200
    THEN [results |-> results, calls |-> parcel.calls]
    ELSE IF zoning.status # 200
    THEN [results |-> results, calls |-> parcel.calls \o zoning.calls]
    ELSE [results |-> Append(results, SuccessEntry(ain, parcel, zoning)),
          calls |-> parcel.calls \o zoning.calls]

BatchTry(results, ain, parcel, zoning) ==
    IF parcel.status # 200
    THEN [results |-> Append(results, ErrorEntry(ain, parcel)), calls |-> parcel.calls]
    ELSE IF zoning.status # 200
    THEN [results |-> Append(results, ErrorEntry(ain, zoning)),
          calls |-> parcel.calls \o zoning.calls]
    ELSE [results |-> Append(results, SuccessEntry(ain, parcel, zoning)),
          calls |-> parcel.calls \o zoning.calls]

\* One pass of "for ain in request.ains".
BatchPass(results, ain, assessor1, assessor2, gis) ==
    BatchTry(results, ain, get_parcel_summary(ain, assessor1),
             get_zoning_summary(ain, assessor2, gis))

\* ------------------------------------------------------------------------
\* zimas_scraper: the string helpers and the table of one section
\* ------------------------------------------------------------------------

\* str.lower()
Lower(s) ==
    [i \in 1..Len(s) |->
        IF IsUpper(s[i]) THEN LowerCase[CHOOSE k \in 1..26 : UpperCase[k] = s[i]] ELSE s[i]]

IsLetter(c) == IsLower(c) \/ IsUpper(c)

\* str.title(): a letter is upper-cased after a character that is no letter
\* (or at the start), lower-cased after a letter.
Title(s) ==
    [i \in 1..Len(s) |->
        IF ~IsLetter(s[i]) THEN s[i]
        ELSE IF i > 1 /\ IsLetter(s[i - 1]) THEN Lower(<<s[i]>>)[1]
        ELSE Upper(<<s[i]>>)[1]]

\* s.endswith(suffix)
EndsWith(s, suffix) ==
    /\ Len(suffix) <= Len(s)
    /\ SubSeq(s, Len(s) - Len(suffix) + 1, Len(s)) = suffix

\* suffixes of clean_street_name, in the order the loop tries them.
suffixes ==
    <<<<" ", "s", "t">>, <<" ", "s", "t", "r", "e", "e", "t">>,
      <<" ", "a", "v", "e">>, <<" ", "a", "v", "e", "n", "u", "e">>,
      <<" ", "b", "l", "v", "d">>, <<" ", "b", "o", "u", "l", "e", "v", "a", "r", "d">>,
      <<" ", "d", "r">>, <<" ", "d", "r", "i", "v", "e">>,
      <<" ", "r", "d">>, <<" ", "r", "o", "a", "d">>,
      <<" ", "p", "l">>, <<" ", "p", "l", "a", "c", "e">>,
      <<" ", "l", "n">>, <<" ", "l", "a", "n", "e">>,
      <<" ", "w", "a", "y">>, <<" ", "c", "t">>, <<" ", "c", "o", "u", "r", "t">>,
      <<" ", "c", "i", "r">>, <<" ", "c", "i", "r", "c", "l", "e">>,
      <<" ", "t", "e", "r">>, <<" ", "t", "e", "r", "r", "a", "c", "e">>>>

\* for s in suffixes: if n.endswith(s): n = n[:-len(s)]; break
RECURSIVE DropSuffix(_, _)
DropSuffix(n, i) ==
    IF i > Len(suffixes) THEN n
    ELSE IF EndsWith(n, suffixes[i]) THEN SubSeq(n, 1, Len(n) - Len(suffixes[i]))
    ELSE DropSuffix(n, i + 1)

clean_street_name(name) == Title(Strip(DropSuffix(Strip(Lower(name)), 1)))

\* A character that was dropped.
Dropped == ""

Kept(c) == c # Dropped

\* " ".join(label.split()): every run of whitespace becomes one space, and
\* the ends are trimmed.
JoinSplit(s) ==
    Strip(SelectSeq([i \in 1..Len(s) |->
                        IF ~IsSpace(s[i]) THEN s[i]
                        ELSE IF i > 1 /\ IsSpace(s[i - 1]) THEN Dropped
                        ELSE " "],
                    Kept))

\* re.sub(r"[()/]", " ", s)
Unbracket(s) == [i \in 1..Len(s) |-> IF s[i] \in {"(", ")", "/"} THEN " " ELSE s[i]]

IsAlnum(c) == IsDigit(c) \/ IsLetter(c)

\* re.sub(r"[^0-9a-zA-Z]+", "_", s): every run of other characters becomes one "_".
Underscore(s) ==
    SelectSeq([i \in 1..Len(s) |->
                  IF IsAlnum(s[i]) THEN s[i]
                  ELSE IF i > 1 /\ ~IsAlnum(s[i - 1]) THEN Dropped
                  ELSE "_"],
              Kept)

\* s.strip("_")
RECURSIVE StripUnderscores(_)
StripUnderscores(s) ==
    IF s # <<>> /\ Head(s) = "_" THEN StripUnderscores(Tail(s))
    ELSE IF s # <<>> /\ s[Len(s)] = "_" THEN StripUnderscores(SubSeq(s, 1, Len(s) - 1))
    ELSE s

_normalize_label(label) == StripUnderscores(Underscore(Unbracket(JoinSplit(label))))

\* A dict as a function from its keys; d[k] = v.
EmptyDict == [k \in {} |-> <<>>]

DictSet(d, k, v) == (k :> v) @@ d

\* d.get(k, default)
DictGet(d, k, default) == IF k \in DOMAIN d THEN d[k] ELSE default

\* counts[key] of the defaultdict(int)
CountOf(counts, key) == DictGet(counts, key, 0)

\* final_key = f"{key}_{counts[key]}" if counts[key] > 1 else key
FinalKey(key, count) == IF count > 1 THEN key \o <<"_">> \o NatToStr(count) ELSE key

\* The row is stored: counts[key] += 1; data[final_key] = value.
StoreRow(acc, key, value) ==
    [acc EXCEPT !.data = DictSet(@, FinalKey(key, CountOf(acc.counts, key) + 1), value),
                !.counts = DictSet(@, key, CountOf(acc.counts, key) + 1)]

\* One pass of "for row in rows": a row of fewer than two cells, or with an
\* empty label or value, is skipped.
RowStep(acc, cells) ==
    IF Len(cells) < 2 THEN acc
    ELSE IF Strip(cells[1]) = <<>> \/ Strip(cells[2]) = <<>> THEN acc
    ELSE StoreRow(acc, _normalize_label(Strip(cells[1])), Strip(cells[2]))

\* "for row in rows": next is the place of the row the loop reads next.
Advance(acc) == [acc EXCEPT !.next = @ + 1]

RECURSIVE RowsLoop(_, _)
RowsLoop(tableRows, acc) ==
    IF acc.next > Len(tableRows) THEN acc
    ELSE RowsLoop(tableRows, Advance(RowStep(acc, tableRows[acc.next])))

\* data of one section, from the rows of its frame.
SectionData(tableRows) ==
    RowsLoop(tableRows, [data |-> EmptyDict, counts |-> EmptyDict, next |-> 1]).data

\* ------------------------------------------------------------------------
\* zimas_scraper.scrape_zimas_ultra
\* ------------------------------------------------------------------------

\* tab_text of SECTIONS, in order.
SECTIONS ==
    <<<<"J", "u", "r", "i", "s", "d", "i", "c", "t", "i", "o", "n", "a", "l">>,
      <<"P", "l", "a", "n", "n", "i", "n", "g", " ", "a", "n", "d", " ", "Z", "o", "n", "i", "n", "g">>,
      <<"A", "d", "d", "i", "t", "i", "o", "n", "a", "l">>,
      <<"E", "n", "v", "i", "r", "o", "n", "m", "e", "n", "t", "a", "l">>,
      <<"S", "e", "i", "s", "m", "i", "c", " ", "H", "a", "z", "a", "r", "d", "s">>>>

\* sec_id = tab_text.replace(" ", "_")
SecId(tab_text) == Replace(tab_text, " ", <<"_">>)

NotFound == <<"N", "o", "t", " ", "f", "o", "u", "n", "d">>

NotListed == <<"N", "o", "t", " ", "l", "i", "s", "t", "e", "d", " ", "i", "n", " ", "Z", "I", "M", "A", "S">>

\* result["Overlay_Zones_Data"].get(section, {}).get(key, "Not found")
Scraped(overlay, section, key) == DictGet(DictGet(overlay, section, EmptyDict), key, NotFound)

\* clean_data, from the per-section mappings.
CleanData(overlay) ==
    [General_Plan_Land_Use |->
        Scraped(overlay, <<"P", "l", "a", "n", "n", "i", "n", "g", "_", "a", "n", "d", "_", "Z", "o",
                "n", "i", "n", "g">>,
                <<"G", "e", "n", "e", "r", "a", "l", "_", "P", "l", "a", "n", "_", "L", "a",
                "n", "d", "_", "U", "s", "e">>),
     Occupancy |-> NotListed,
     Community_Plan_Area |->
        Scraped(overlay, <<"J", "u", "r", "i", "s", "d", "i", "c", "t", "i", "o", "n", "a", "l">>,
                <<"C", "o", "m", "m", "u", "n", "i", "t", "y", "_", "P", "l", "a", "n", "_",
                "A", "r", "e", "a">>),
     Liquefaction_Zone |->
        Scraped(overlay, <<"S", "e", "i", "s", "m", "i", "c", "_", "H", "a", "z", "a", "r", "d", "s">>,
                <<"L", "i", "q", "u", "e", "f", "a", "c", "t", "i", "o", "n">>),
     Flood_Zone |->
        Scraped(overlay, <<"A", "d", "d", "i", "t", "i", "o", "n", "a", "l">>,
                <<"F", "l", "o", "o", "d", "_", "Z", "o", "n", "e">>),
     Specific_Plan |->
        Scraped(overlay, <<"P", "l", "a", "n", "n", "i", "n", "g", "_", "a", "n", "d", "_", "Z", "o",
                "n", "i", "n", "g">>,
                <<"S", "p", "e", "c", "i", "f", "i", "c", "_", "P", "l", "a", "n", "_", "A",
                "r", "e", "a">>),
     High_Quality_Transit_Corridor_within_half_mile |->
        Scraped(overlay, <<"P", "l", "a", "n", "n", "i", "n", "g", "_", "a", "n", "d", "_", "Z", "o",
                "n", "i", "n", "g">>,
                <<"H", "i", "g", "h", "_", "Q", "u", "a", "l", "i", "t", "y", "_", "T", "r",
                "a", "n", "s", "i", "t", "_", "C", "o", "r", "r", "i", "d", "o", "r", "_", "w",
                "i", "t", "h", "i", "n", "_", "1", "_", "2", "_", "m", "i", "l", "e">>),
     California_Building_Codes |-> NotListed,
     Alquist_Priolo_Fault_Zone |->
        Scraped(overlay, <<"S", "e", "i", "s", "m", "i", "c", "_", "H", "a", "z", "a", "r", "d", "s">>,
                <<"A", "l", "q", "u", "i", "s", "t", "_", "P", "r", "i", "o", "l", "o", "_",
                "F", "a", "u", "l", "t", "_", "Z", "o", "n", "e">>),
     Hillside_Area_Zoning_Code |->
        Scraped(overlay, <<"P", "l", "a", "n", "n", "i", "n", "g", "_", "a", "n", "d", "_", "Z", "o",
                "n", "i", "n", "g">>,
                <<"H", "i", "l", "l", "s", "i", "d", "e", "_", "A", "r", "e", "a", "_", "Z",
                "o", "n", "i", "n", "g", "_", "C", "o", "d", "e">>),
     Special_Land_Use_or_Zoning |->
        Scraped(overlay, <<"P", "l", "a", "n", "n", "i", "n", "g", "_", "a", "n", "d", "_", "Z", "o",
                "n", "i", "n", "g">>,
                <<"S", "p", "e", "c", "i", "a", "l", "_", "L", "a", "n", "d", "_", "U", "s",
                "e", "_", "Z", "o", "n", "i", "n", "g">>),
     Historic_Preservation_Review |->
        Scraped(overlay, <<"P", "l", "a", "n", "n", "i", "n", "g", "_", "a", "n", "d", "_", "Z", "o",
                "n", "i", "n", "g">>,
                <<"H", "i", "s", "t", "o", "r", "i", "c", "_", "P", "r", "e", "s", "e", "r",
                "v", "a", "t", "i", "o", "n", "_", "R", "e", "v", "i", "e", "w">>),
     HistoricPlacesLA |->
        Scraped(overlay, <<"P", "l", "a", "n", "n", "i", "n", "g", "_", "a", "n", "d", "_", "Z", "o",
                "n", "i", "n", "g">>,
                <<"H", "i", "s", "t", "o", "r", "i", "c", "P", "l", "a", "c", "e", "s", "L",
                "A">>),
     CDO_Community_Design_Overlay |->
        Scraped(overlay, <<"P", "l", "a", "n", "n", "i", "n", "g", "_", "a", "n", "d", "_", "Z", "o",
                "n", "i", "n", "g">>,
                <<"C", "D", "O", "_", "C", "o", "m", "m", "u", "n", "i", "t", "y", "_", "D",
                "e", "s", "i", "g", "n", "_", "O", "v", "e", "r", "l", "a", "y">>),
     RFA_Residential_Floor_Area_District |->
        Scraped(overlay, <<"P", "l", "a", "n", "n", "i", "n", "g", "_", "a", "n", "d", "_", "Z", "o",
                "n", "i", "n", "g">>,
                <<"R", "F", "A", "_", "R", "e", "s", "i", "d", "e", "n", "t", "i", "a", "l",
                "_", "F", "l", "o", "o", "r", "_", "A", "r", "e", "a", "_", "D", "i", "s", "t",
                "r", "i", "c", "t">>),
     Airport_Hazard |->
        Scraped(overlay, <<"A", "d", "d", "i", "t", "i", "o", "n", "a", "l">>,
                <<"A", "i", "r", "p", "o", "r", "t", "_", "H", "a", "z", "a", "r", "d">>),
     Coastal_Zone |->
        Scraped(overlay, <<"A", "d", "d", "i", "t", "i", "o", "n", "a", "l">>,
                <<"C", "o", "a", "s", "t", "a", "l", "_", "Z", "o", "n", "e">>),
     Very_High_Fire_Hazard_Severity_Zone |->
        Scraped(overlay, <<"A", "d", "d", "i", "t", "i", "o", "n", "a", "l">>,
                <<"V", "e", "r", "y", "_", "H", "i", "g", "h", "_", "F", "i", "r", "e", "_",
                "H", "a", "z", "a", "r", "d", "_", "S", "e", "v", "e", "r", "i", "t", "y", "_",
                "Z", "o", "n", "e">>),
     Special_Grading_Area |->
        Scraped(overlay, <<"A", "d", "d", "i", "t", "i", "o", "n", "a", "l">>,
                <<"S", "p", "e", "c", "i", "a", "l", "_", "G", "r", "a", "d", "i", "n", "g",
                "_", "A", "r", "e", "a", "_", "B", "O", "E", "_", "B", "a", "s", "i", "c", "_",
                "G", "r", "i", "d", "_", "M", "a", "p", "_", "A", "_", "1", "3", "3", "7", "2">>),
     Wildland_Urban_Interface_WUI |->
        Scraped(overlay, <<"E", "n", "v", "i", "r", "o", "n", "m", "e", "n", "t", "a", "l">>,
                <<"W", "i", "l", "d", "l", "a", "n", "d", "_", "U", "r", "b", "a", "n", "_",
                "I", "n", "t", "e", "r", "f", "a", "c", "e", "_", "W", "U", "I">>)]

\* The running call: exc is the exception inside the try block ("none" when
\* there is none), raised the exception leaving the function, error the one
\* the except clause caught; trace lists the steps started; overlay is
\* result["Overlay_Zones_Data"]; browser is "none" before the launch, then
\* "open", "closed" after a close() that returned, "stopped" when the
\* Playwright driver went down with the browser still open.
Running(s) == s.exc = "none" /\ s.raised = "none"

StartOfCall(files) ==
    [exc |-> "none", raised |-> "none", error |-> "none", trace |-> <<>>, overlay |-> EmptyDict,
     browser |-> "none", closeCalls |-> 0, files |-> files]

\* A Playwright call outside the try block: its exception leaves the function.
CallOutside(s, step, site) ==
    IF ~Running(s) THEN s
    ELSE IF site.fails = step THEN [s EXCEPT !.trace = Append(@, step), !.raised = step]
    ELSE [s EXCEPT !.trace = Append(@, step)]

\* A Playwright call inside the try block.
Call(s, step, site) ==
    IF ~Running(s) THEN s
    ELSE IF site.fails = step THEN [s EXCEPT !.trace = Append(@, step), !.exc = step]
    ELSE [s EXCEPT !.trace = Append(@, step)]

\* browser = await p.chromium.launch(...)
Launched(s) == IF Running(s) THEN [s EXCEPT !.browser = "open"] ELSE s

\* handle_terms_popup's loop over its selectors: a selector is "hidden"
\* (is_visible is false), "raises" (is_visible raises), "click_raises" (the
\* button is visible and btn.click() raises) or "accepts" (the click goes
\* through and the function returns); after the loop comes page.evaluate.
RECURSIVE SelectorLoop(_, _)
SelectorLoop(selectors, i) ==
    IF i > Len(selectors) THEN "evaluate"
    ELSE IF selectors[i] = "accepts" THEN "return"
    ELSE SelectorLoop(selectors, i + 1)

\* The exception handle_terms_popup ends with: that of page.evaluate, which
\* no try encloses.
PopupRaises(site) ==
    IF SelectorLoop(site.popup, 1) = "evaluate" /\ site.evaluate = "raises"
    THEN "handle_terms_popup"
    ELSE "none"

\* await handle_terms_popup(page)
handle_terms_popup(s, site) ==
    IF ~Running(s) THEN s
    ELSE [s EXCEPT !.trace = Append(@, "handle_terms_popup"), !.exc = PopupRaises(site)]

\* "Auto-select first result": whatever the link does, the except passes.
SelectFirstResult(s, site) ==
    IF ~Running(s) THEN s ELSE [s EXCEPT !.trace = Append(@, "select_first_result")]

\* frame = page.main_frame; for f in page.frames: the first frame whose body
\* holds a keyword ("keyword"); a frame whose body cannot be read ("raises")
\* or holds none ("other") is passed over.
RECURSIVE ChosenFrame(_, _)
ChosenFrame(frames, i) ==
    IF i > Len(frames) THEN frames[1]
    ELSE IF frames[i].body = "keyword" THEN frames[i]
    ELSE ChosenFrame(frames, i + 1)

SectionFails(k, site, steps) == site.failSection = k /\ site.fails \in steps

\* One pass of "for sec in SECTIONS".
MutSectionStepIgnoresVisibility(s, k, site) ==
    IF SectionFails(k, site, {"tab", "tab_click", "rows"})
    THEN [s EXCEPT !.trace = Append(@, "section"), !.exc = site.fails]
    ELSE [s EXCEPT !.trace = Append(@, "section"),
                   !.overlay = DictSet(@, SecId(SECTIONS[k]),
                                       SectionData(ChosenFrame(site.sections[k].frames, 1).rows))]

SectionStep(s, k, site) ==
    IF SectionFails(k, site, {"tab"})
    THEN [s EXCEPT !.trace = Append(@, "section"), !.exc = "tab"]
    ELSE IF site.sections[k].tab = "hidden"
    THEN [s EXCEPT !.trace = Append(@, "section"),
                   !.overlay = DictSet(@, SecId(SECTIONS[k]), EmptyDict)]
    ELSE IF SectionFails(k, site, {"tab_click", "rows"})
    THEN [s EXCEPT !.trace = Append(@, "section"), !.exc = site.fails]
    ELSE [s EXCEPT !.trace = Append(@, "section"),
                   !.overlay = DictSet(@, SecId(SECTIONS[k]),
                                       SectionData(ChosenFrame(site.sections[k].frames, 1).rows))]

RECURSIVE SectionsLoop(_, _, _)
SectionsLoop(s, k, site) ==
    IF ~Running(s) \/ k > Len(SECTIONS) THEN s
    ELSE SectionsLoop(SectionStep(s, k, site), k + 1, site)

\* timestamp = datetime.now().strftime("%Y%m%d_%H%M%S"): one string per second
\* of the clock, here the number of the second.
Timestamp(now) == NatToStr(now)

\* filename = f"zimas_{house_number}_{clean_street_name(street_name)}_{timestamp}.csv"
Filename(house_number, street_name, now) ==
    <<"z", "i", "m", "a", "s", "_">> \o house_number \o <<"_">> \o clean_street_name(street_name)
        \o <<"_">> \o Timestamp(now) \o <<".", "c", "s", "v">>

\* row = {"House_Number": house_number, "Street_Name": street_name, **clean_data}
CsvRow(house_number, street_name, clean_data) ==
    [House_Number |-> house_number, Street_Name |-> street_name, clean |-> clean_data]

\* open(csv_path, "w"): the file is created or emptied, then the header and
\* the row are written. A file is the list of its rows.
Written(files, name, row) == DictSet(files, name, <<row>>)

\* The CSV export: mkdir or open may raise ("export_open", nothing written),
\* or the writer may ("export_write", the file left empty).
Export(s, house_number, street_name, now, site) ==
    IF ~Running(s) THEN s
    ELSE IF site.fails = "export_open"
    THEN [s EXCEPT !.trace = Append(@, "export"), !.exc = "export_open"]
    ELSE IF site.fails = "export_write"
    THEN [s EXCEPT !.trace = Append(@, "export"), !.exc = "export_write",
                   !.files = DictSet(@, Filename(house_number, street_name, now), <<>>)]
    ELSE [s EXCEPT !.trace = Append(@, "export"),
                   !.files = Written(@, Filename(house_number, street_name, now),
                                     CsvRow(house_number, street_name, CleanData(s.overlay)))]

\* await browser.close(): the site says, for the first and the second call,
\* whether close() returns or raises.
Close(s, site) ==
    IF site.closes[s.closeCalls + 1] = "raises"
    THEN [s EXCEPT !.trace = Append(@, "close"), !.closeCalls = @ + 1, !.exc = "close"]
    ELSE [s EXCEPT !.trace = Append(@, "close"), !.closeCalls = @ + 1, !.browser = "closed"]

\* await browser.close() at the end of the try block.
CloseInTry(s, site) == IF Running(s) THEN Close(s, site) ELSE s

\* The try block, lines 100-204.
ScrapeTry(s, house_number, street_name, now, site) ==
    CloseInTry(
        Export(
            SectionsLoop(
                SelectFirstResult(
                    Call(Call(Call(handle_terms_popup(Call(s, "goto", site), site),
                                   "fill_house", site), "fill_street", site), "click_search", site),
                    site),
                1, site),
            house_number, street_name, now, site),
        site)

\* An exception inside the except clause leaves the function.
Reraise(s) == [s EXCEPT !.raised = s.exc, !.exc = "none"]

\* except Exception as e: await browser.close(); return {"_error": ...}
ExceptClause(s, site) ==
    IF s.raised # "none" \/ s.exc = "none" THEN s
    ELSE Reraise(Close([s EXCEPT !.exc = "none", !.error = s.exc], site))

\* The end of "async with async_playwright()": the driver stops, and a browser
\* still open goes down with it.
ExitPlaywright(s) == IF s.browser = "open" THEN [s EXCEPT !.browser = "stopped"] ELSE s

\* result["_debug"]
Debug(house_number, street_name) ==
    [house_number |-> house_number, street_name_input |-> street_name,
     street_name_clean |-> clean_street_name(street_name)]

\* What the call hands back: ret is <<>> when an exception leaves the function,
\* else <<the returned mapping>>, a key that the mapping lacks being <<>>.
Outcome(s, debug) ==
    [raised |-> s.raised,
     ret |-> IF s.raised # "none" THEN <<>>
             ELSE IF s.error # "none"
             THEN <<[Overlay_Zones_Data |-> <<>>, _error |-> <<s.error>>, _debug |-> <<debug>>]>>
             ELSE <<[Overlay_Zones_Data |-> <<CleanData(s.overlay)>>, _error |-> <<>>,
                     _debug |-> <<debug>>]>>,
     trace |-> s.trace, sections |-> s.overlay, browser |-> s.browser,
     closeCalls |-> s.closeCalls, files |-> s.files]

scrape_zimas_ultra(house_number, street_name, now, files, site) ==
    Outcome(
        ExitPlaywright(
            ExceptClause(
                ScrapeTry(
                    CallOutside(
                        CallOutside(
                            Launched(CallOutside(StartOfCall(files), "launch", site)),
                            "new_context", site),
                        "new_page", site),
                    house_number, street_name, now, site),
                site)),
        Debug(house_number, street_name))

\* ------------------------------------------------------------------------
\* State
\* ------------------------------------------------------------------------

VARIABLES
    raw,        \* the assessor's body handed to build_summary
    summary,    \* <<>> before build_summary returns, then <<its outcome>>
    lookup,     \* the house number and street name given to resolve_address_to_ain
    openData,   \* what the open-data endpoint does with that request
    resolved,   \* <<>> before resolve_address_to_ain ends, then <<its outcome>>
    query,      \* the point given to fetch_zoning and what the GIS service answers
    zoning_info,\* <<>> before fetch_zoning ends, then <<its outcome>>
    request,    \* the API request being served: its operation and its AINs
    pc,         \* "serving" while the endpoint runs, "done" once it has responded
    calls,      \* the external calls made so far, one group per request or batch pass
    results,    \* combo_batch's results list
    response,   \* <<>> while serving, then <<the response>>
    table,      \* the rows of one section's frame, each row the texts of its cells
    section,    \* <<>> before the rows are read, then <<the section's mapping>>
    address,    \* the house number and street name given to scrape_zimas_ultra
    site,       \* what the browser and the ZIMAS pages do during the call
    scraped,    \* <<>> before scrape_zimas_ultra ends, then <<its outcome>>
    files,      \* the files of csv_output, each the list of its rows
    clock       \* the second datetime.now() is in

pdbVars == <<raw, summary>>

resolverVars == <<lookup, openData, resolved>>

queryVars == <<query, zoning_info>>

apiVars == <<request, pc, calls, results, response>>

zimasVars == <<table, section, address, site, scraped, files, clock>>

vars == <<raw, summary, lookup, openData, resolved, query, zoning_info,
          request, pc, calls, results, response,
          table, section, address, site, scraped, files, clock>>

\* A component that serves no call in the behaviours of another's specification.
PdbIdle == raw = RawNoParcel /\ summary = <<>>

ResolverIdle ==
    /\ lookup = [house_number |-> <<>>, street_name |-> <<>>]
    /\ openData = OpenDataRaises
    /\ resolved = <<>>

QueryIdle == query = GisCall(JNull, JNull, TransportFailure) /\ zoning_info = <<>>

ApiIdle ==
    /\ request = [op |-> "none", ains |-> <<>>]
    /\ pc = "done"
    /\ calls = <<>>
    /\ results = <<>>
    /\ response = <<>>

\* No browser, no page.
NoSite == [fails |-> "launch"]

RowsIdle == table = <<>> /\ section = <<>>

ScraperIdle ==
    /\ address = [house_number |-> <<>>, street_name |-> <<>>]
    /\ site = NoSite
    /\ scraped = <<>>
    /\ files = EmptyDict
    /\ clock = 0

ZimasIdle == RowsIdle /\ ScraperIdle

\* ------------------------------------------------------------------------
\* Inputs of build_summary
\* ------------------------------------------------------------------------

Chars200 == <<"2", "0", "0">>

Chars1950 == <<"1", "9", "5", "0">>

\* A subpart whose five fields parse: 200 sqft, built 1950, 1 unit, 2 beds, 1 bath.
BaseSubPart ==
    [EmptySubPart EXCEPT !.SqftMain = JStr(Chars200), !.YearBuilt = JStr(Chars1950),
                         !.NumOfUnits = JStr(<<"1">>), !.NumOfBeds = JStr(<<"2">>),
                         !.NumOfBaths = JStr(<<"1">>), !.DesignType = JStr(<<"0", "1", "0", "0">>),
                         !.DesignType1stDigit = JStr(<<"0">>), !.DesignType2ndDigit = JStr(<<"1">>),
                         !.DesignType3rdDigit = JStr(<<"0">>), !.DesignType4thDigit = JStr(<<"0">>)]

\* 300 sqft, 2 units.
SecondSubPart ==
    [BaseSubPart EXCEPT !.SqftMain = JStr(<<"3", "0", "0">>), !.NumOfUnits = JStr(<<"2">>)]

\* What a numeric field may hold instead: absent, null, empty, padded, not a
\* number, a decimal, a JSON number.
CountValues ==
    {JMissing, JNull, JStr(<<>>), JStr(<<" ", "3", "0", "0", " ">>),
     JStr(<<"a", "b", "c">>), JStr(<<"1", ".", "5">>), JInt(4)}

YearValues ==
    {JMissing, JStr(<<>>), JStr(<<" ">>), JStr(<<" ", "1", "9", "5", "0", " ">>),
     JStr(<<"1", "9", "2", "3">>), JStr(<<"2", "0", "0">>)}

\* The subparts of the model: the two above, and the first with one field changed.
SubPartValues ==
    {BaseSubPart, SecondSubPart}
    \cup {[BaseSubPart EXCEPT !.SqftMain = v] : v \in CountValues}
    \cup {[BaseSubPart EXCEPT !.NumOfUnits = v] : v \in CountValues}
    \cup {[BaseSubPart EXCEPT !.NumOfBeds = v] : v \in CountValues}
    \cup {[BaseSubPart EXCEPT !.NumOfBaths = v] : v \in CountValues}
    \cup {[BaseSubPart EXCEPT !.YearBuilt = v] : v \in YearValues}

SubPartLists == UNION {[1..n -> SubPartValues] : n \in 1..MaxSubParts}

\* A parcel with every scalar present.
FullParcel ==
    [AIN |-> JStr(<<"5", "8", "4", "6">>), Latitude |-> JInt(34), Longitude |-> JInt(-118),
     SitusStreet |-> JStr(<<" ", "1", "2", " ", "M", "A", "I", "N", " ">>),
     SitusCity |-> JStr(<<"L", "A">>), SitusZipCode |-> JStr(<<>>),
     UseType |-> JStr(<<"S", "F", "R">>), ZoningPDB |-> JStr(<<"L", "C", "R", "1">>),
     LegalDescription |-> JNull, QualityClass |-> JStr(<<"D", "5">>),
     SqftMain |-> JStr(<<"9", "9", "9">>), NumOfUnits |-> JStr(<<"7">>),
     NumOfBeds |-> JStr(<<"8">>), NumOfBaths |-> JInt(9),
     YearBuilt |-> JStr(<<"1", "9", "0", "0">>),
     LandWidth |-> JInt(50), LandDepth |-> JStr(<<"1", "0", "0">>), SubParts |-> NoSubParts]

\* What a parcel-level scalar may hold.
ScalarValues == {JMissing, JNull, JStr(<<>>), JInt(0), JStr(<<"3">>), JInt(4)}

ParcelYearValues == {JMissing, JStr(<<>>), JStr(<<" ", "1", "9", "5", "0", " ">>), JInt(1950)}

\* Parcels without subparts: the list absent, null or empty, every parcel-level
\* count drawn independently.
ParcelsWithoutSubParts ==
    {[h EXCEPT !.SubParts = sl, !.NumOfUnits = u, !.NumOfBeds = b, !.NumOfBaths = ba,
               !.YearBuilt = y] :
        h \in {EmptyParcel, FullParcel}, sl \in {NoSubParts, NullSubParts, SubPartList(<<>>)},
        u \in ScalarValues, b \in ScalarValues, ba \in ScalarValues, y \in ParcelYearValues}

ParcelsWithSubParts ==
    {[h EXCEPT !.SubParts = SubPartList(l)] : h \in {EmptyParcel, FullParcel}, l \in SubPartLists}

PdbInputs ==
    {RawNoParcel, RawNullParcel}
    \cup {RawParcel(p) : p \in ParcelsWithoutSubParts \cup ParcelsWithSubParts}

\* ------------------------------------------------------------------------
\* The parcel summarizer as a state machine: one call of build_summary
\* ------------------------------------------------------------------------

InitPdb ==
    /\ raw \in PdbInputs
    /\ summary = <<>>
    /\ ResolverIdle /\ QueryIdle /\ ApiIdle /\ ZimasIdle

BuildSummary ==
    /\ summary = <<>>
    /\ summary' = <<build_summary(raw)>>
    /\ UNCHANGED <<raw, resolverVars, queryVars, apiVars, zimasVars>>

NextPdb == BuildSummary

SpecPdb == InitPdb /\ [][NextPdb]_vars

\* ------------------------------------------------------------------------
\* Properties of build_summary (checked under SpecPdb)
\* ------------------------------------------------------------------------

\* The integer a subpart field stands for, value by value: the number written
\* in it, surrounding blanks ignored, and zero when there is none.
IntegerValue(v) ==
    CASE v = JStr(<<"1">>) -> 1
      [] v = JStr(<<"2">>) -> 2
      [] v = JStr(Chars200) -> 200
      [] v = JStr(<<"3", "0", "0">>) -> 300
      [] v = JStr(<<" ", "3", "0", "0", " ">>) -> 300
      [] v = JInt(4) -> 4
      [] OTHER -> 0

\* The year a subpart's YearBuilt stands for, value by value.
YearString(v) ==
    CASE v = JStr(Chars1950) -> {JStr(Chars1950)}
      [] v = JStr(<<" ", "1", "9", "5", "0", " ">>) -> {JStr(Chars1950)}
      [] v = JStr(<<"1", "9", "2", "3">>) -> {JStr(<<"1", "9", "2", "3">>)}
      [] v = JStr(Chars200) -> {JStr(Chars200)}
      [] OTHER -> {}

RECURSIVE SumSeq(_)
SumSeq(s) == IF s = <<>> THEN 0 ELSE Head(s) + SumSeq(Tail(s))

SummaryReturned == summary # <<>> /\ summary[1].exc = "none"

TheSummary == summary[1].val[1]

TheSubParts == IF raw.Parcel.t = "obj" THEN SubPartsOf(raw.Parcel.o) ELSE <<>>

TheParcel == IF raw.Parcel.t = "obj" THEN raw.Parcel.o ELSE EmptyParcel

\* C1: with at least one subpart, total_sqft_pdb, num_units, beds and baths are
\* the sums over the subparts of the field's integer value (zero for a missing
\* or unparsable one); the parcel-level scalars contribute nothing.
C1_AggregatesAreSubPartSums ==
    (summary # <<>> /\ Len(TheSubParts) >= 1) =>
        /\ SummaryReturned
        /\ TheSummary.total_sqft_pdb =
              JInt(SumSeq([i \in 1..Len(TheSubParts) |-> IntegerValue(TheSubParts[i].SqftMain)]))
        /\ TheSummary.num_units =
              JInt(SumSeq([i \in 1..Len(TheSubParts) |-> IntegerValue(TheSubParts[i].NumOfUnits)]))
        /\ TheSummary.beds =
              JInt(SumSeq([i \in 1..Len(TheSubParts) |-> IntegerValue(TheSubParts[i].NumOfBeds)]))
        /\ TheSummary.baths =
              JInt(SumSeq([i \in 1..Len(TheSubParts) |-> IntegerValue(TheSubParts[i].NumOfBaths)]))

\* The spec's scenario: subparts of 200 and 300 sqft with 1 and 2 units, on a
\* parcel that has scalars of its own, give 500 sqft and 3 units.
C1_Witness ==
    /\ SummaryReturned
    /\ TheSubParts = <<BaseSubPart, SecondSubPart>>
    /\ Truthy(TheParcel.NumOfUnits)
    /\ TheSummary.total_sqft_pdb = JInt(500)
    /\ TheSummary.num_units = JInt(3)

WithoutSubParts == raw.Parcel.t = "obj" /\ TheSubParts = <<>>

\* A key that is there and is not null.
Present(v) == v.t \notin {"missing", "null"}

\* C2 as stated: without subparts, num_units, beds and baths are the parcel's
\* NumOfUnits, NumOfBeds and NumOfBaths whenever those are present.
C2_Original_PresentScalarIsReturned ==
    (SummaryReturned /\ WithoutSubParts) =>
        /\ Present(TheParcel.NumOfUnits) => TheSummary.num_units = TheParcel.NumOfUnits
        /\ Present(TheParcel.NumOfBeds) => TheSummary.beds = TheParcel.NumOfBeds
        /\ Present(TheParcel.NumOfBaths) => TheSummary.baths = TheParcel.NumOfBaths

\* A scalar that holds something: not absent, not null, not "" and not 0.
HoldsValue(v) == Present(v) /\ v # JStr(<<>>) /\ v # JInt(0)

\* C2, amended: without subparts, num_units, beds and baths are the parcel's
\* NumOfUnits, NumOfBeds and NumOfBaths, as they are, whenever those hold a
\* value; an absent, null, empty or zero scalar gives 0.
C2_ScalarFallback ==
    (summary # <<>> /\ WithoutSubParts) =>
        /\ SummaryReturned
        /\ TheSummary.num_units =
              IF HoldsValue(TheParcel.NumOfUnits) THEN TheParcel.NumOfUnits ELSE JInt(0)
        /\ TheSummary.beds =
              IF HoldsValue(TheParcel.NumOfBeds) THEN TheParcel.NumOfBeds ELSE JInt(0)
        /\ TheSummary.baths =
              IF HoldsValue(TheParcel.NumOfBaths) THEN TheParcel.NumOfBaths ELSE JInt(0)

C2_Witness ==
    /\ SummaryReturned
    /\ WithoutSubParts
    /\ TheParcel.SubParts = NullSubParts
    /\ TheParcel.NumOfUnits = JStr(<<"3">>)
    /\ TheParcel.NumOfBeds = JStr(<<>>)
    /\ TheSummary.num_units = JStr(<<"3">>)
    /\ TheSummary.beds = JInt(0)

\* The list is in ascending order of Python's string comparison, which also
\* excludes a repeated value.
Ascending(l) ==
    \A i \in 1..(Len(l) - 1) : l[i] # l[i + 1] /\ ~StrLess(l[i + 1].s, l[i].s)

SubPartYears == UNION {YearString(TheSubParts[i].YearBuilt) : i \in 1..Len(TheSubParts)}

ListedYears == {TheSummary.year_built_list[i] : i \in 1..Len(TheSummary.year_built_list)}

\* C3 as stated: whatever the subparts, year_built_list is ascending, without
\* duplicates, and holds exactly the subparts' distinct trimmed non-empty years.
C3_Original_ListIsSubPartYears ==
    SummaryReturned =>
        /\ Ascending(TheSummary.year_built_list)
        /\ Cardinality(ListedYears) = Len(TheSummary.year_built_list)
        /\ ListedYears = SubPartYears

\* C3, amended: year_built_list is always ascending and without duplicates;
\* with at least one subpart it holds exactly the subparts' distinct trimmed
\* non-empty years; without subparts it holds the parcel's own YearBuilt,
\* untrimmed, when that holds a value, and nothing otherwise.
C3_YearBuiltList ==
    SummaryReturned =>
        /\ Ascending(TheSummary.year_built_list)
        /\ Cardinality(ListedYears) = Len(TheSummary.year_built_list)
        /\ Len(TheSubParts) >= 1 => ListedYears = SubPartYears
        /\ Len(TheSubParts) = 0 =>
              ListedYears = IF HoldsValue(TheParcel.YearBuilt) THEN {TheParcel.YearBuilt} ELSE {}

\* Two subparts built " 1950 " and "1923" list as 1923, 1950.
C3_Witness ==
    /\ SummaryReturned
    /\ Len(TheSubParts) = 2
    /\ TheSubParts[1].YearBuilt = JStr(<<" ", "1", "9", "5", "0", " ">>)
    /\ TheSubParts[2].YearBuilt = JStr(<<"1", "9", "2", "3">>)
    /\ TheSummary.year_built_list = <<JStr(<<"1", "9", "2", "3">>), JStr(Chars1950)>>

\* ------------------------------------------------------------------------
\* The address resolver as a state machine: one call of resolve_address_to_ain
\* ------------------------------------------------------------------------

\* The longest row list of an open-data answer.
MaxRows == 2

CharsMainSt == <<"M", "A", "I", "N", " ", "S", "T">>

HouseNumbers == {<<"1", "2">>}

StreetNames == {<<"M", "a", "i", "n">>, <<"m", "a", "i", "n", " ", "s", "t">>}

RowValues ==
    {NotARow}
    \cup {Row(h, s, a) :
            h \in {JStr(<<"1", "2">>), JStr(<<"7">>), JInt(12)},
            s \in {JStr(CharsMainSt), JStr(<<"M", "a", "i", "n">>), JStr(<<"M", "A", "P", "L", "E">>),
                   JNull, JMissing},
            a \in {JStr(<<"A", "1">>), JStr(<<"B", "2">>)}}

RowLists == UNION {[1..n -> RowValues] : n \in 0..MaxRows}

OpenDataOutcomes ==
    {OpenDataRaises, OpenDataBadJson, OpenDataNotAMapping, OpenDataAnswer(NoRows),
     OpenDataAnswer(NullRows)}
    \cup {OpenDataAnswer(RowList(l)) : l \in RowLists}

InitResolver ==
    /\ lookup \in [house_number : HouseNumbers, street_name : StreetNames]
    /\ openData \in OpenDataOutcomes
    /\ resolved = <<>>
    /\ PdbIdle /\ QueryIdle /\ ApiIdle /\ ZimasIdle

Resolve ==
    /\ resolved = <<>>
    /\ resolved' = <<resolve_address_to_ain(lookup.house_number, lookup.street_name, openData)>>
    /\ UNCHANGED <<lookup, openData, pdbVars, queryVars, apiVars, zimasVars>>

NextResolver == Resolve

SpecResolver == InitResolver /\ [][NextResolver]_vars

\* ------------------------------------------------------------------------
\* Properties of resolve_address_to_ain (checked under SpecResolver)
\* ------------------------------------------------------------------------

\* The match criteria: the row's house number is the input, and its street
\* name begins with the input street name, letter case aside.
MeetsCriteria(row) ==
    /\ row.t = "obj"
    /\ row.house_number = JStr(lookup.house_number)
    /\ row.street_name.t = "str"
    /\ Len(row.street_name.s) >= Len(lookup.street_name)
    /\ Upper(SubSeq(row.street_name.s, 1, Len(lookup.street_name))) = Upper(lookup.street_name)

RequestSucceeded == openData.kind = "ok" /\ openData.rows.t = "list"

TheRows == IF RequestSucceeded THEN openData.rows.items ELSE <<>>

SomeRowMatches == \E i \in 1..Len(TheRows) : MeetsCriteria(TheRows[i])

FirstMatch == CHOOSE i \in 1..Len(TheRows) : MeetsCriteria(TheRows[i]) /\ \A j \in 1..(i - 1) : ~MeetsCriteria(TheRows[j])

ReturnedNone == [exc |-> "none", value |-> JNull]

\* C5: resolve_address_to_ain never raises; when the request raises or answers
\* no JSON, and when no row meets the criteria, it returns None, the same
\* outcome in both cases.
C5_FailureAndNoMatchReturnNone ==
    resolved # <<>> =>
        /\ resolved[1].exc = "none"
        /\ ~RequestSucceeded => resolved[1] = ReturnedNone
        /\ (RequestSucceeded /\ ~SomeRowMatches) => resolved[1] = ReturnedNone

\* A row that is no mapping: the scan raises inside the try block, and the
\* caller still gets None.
C5_Witness ==
    /\ resolved = <<ReturnedNone>>
    /\ RequestSucceeded
    /\ Len(TheRows) = 2
    /\ TheRows[1] = NotARow
    /\ ~SomeRowMatches

\* C6: when the request succeeds, the result is the AIN of the first row that
\* meets the criteria, whatever the rows before it hold, and None only if no
\* row meets them.
C6_FirstMatchingRow ==
    (resolved # <<>> /\ RequestSucceeded) =>
        IF SomeRowMatches
        THEN resolved[1] = [exc |-> "none", value |-> TheRows[FirstMatch].ain]
        ELSE resolved[1] = ReturnedNone

\* ------------------------------------------------------------------------
\* The zoning-by-coordinate client as a state machine: one call of fetch_zoning
\* ------------------------------------------------------------------------

\* The longest feature list of a GIS answer.
MaxFeatures == 2

ZoneR1 == JStr(<<"R", "1">>)

ZoneC2 == JStr(<<"C", "2">>)

FeatureValues ==
    {Feature(NoAttributes)}
    \cup {Feature(Attributes(z, d, c, u)) :
            z \in {ZoneR1, ZoneC2, JMissing},
            d \in {JStr(<<"R", "e", "s">>), JMissing},
            c \in {JStr(<<"R">>), JNull},
            u \in {JStr(<<"u", "r", "l">>), JMissing}}

FeatureLists == UNION {[1..n -> FeatureValues] : n \in 0..MaxFeatures}

QueryAnswers ==
    {TransportFailure, ErrorStatus, BadJson, GisAnswer(NoFeatures), GisAnswer(NullFeatures)}
    \cup {GisAnswer(FeatureList(l)) : l \in FeatureLists}

InitQuery ==
    /\ query \in {GisCall(lat, lon, a) : lat \in {JInt(34), JInt(0)}, lon \in {JInt(-118)},
                                        a \in QueryAnswers}
    /\ zoning_info = <<>>
    /\ PdbIdle /\ ResolverIdle /\ ApiIdle /\ ZimasIdle

FetchZoning ==
    /\ zoning_info = <<>>
    /\ zoning_info' = <<fetch_zoning(query.answer)>>
    /\ UNCHANGED <<query, pdbVars, resolverVars, apiVars, zimasVars>>

NextQuery == FetchZoning

SpecQuery == InitQuery /\ [][NextQuery]_vars

\* ------------------------------------------------------------------------
\* Properties of fetch_zoning (checked under SpecQuery)
\* ------------------------------------------------------------------------

Answered == query.answer.kind = "ok"

FeatureListGiven == query.answer.features.t = "list" /\ query.answer.features.items # <<>>

FourKeys == {"zone", "zone_description", "zone_category", "title_22_url"}

\* A key's value: what the attributes hold there, None when they do not.
AttributeOrNone(v) == IF v.t = "missing" THEN JNull ELSE v

\* C4: fetch_zoning returns None when the feature list is empty or missing;
\* otherwise a mapping with exactly the keys zone, zone_description,
\* zone_category and title_22_url, their values those of the first feature.
C4_FirstFeatureFourKeys ==
    (zoning_info # <<>> /\ Answered) =>
        /\ zoning_info[1].exc = "none"
        /\ ~FeatureListGiven => zoning_info[1].ret = <<>>
        /\ FeatureListGiven =>
              /\ Len(zoning_info[1].ret) = 1
              /\ DOMAIN zoning_info[1].ret[1] = FourKeys
              /\ LET attrs == query.answer.features.items[1].attributes
                     info == zoning_info[1].ret[1]
                 IN /\ info.zone = AttributeOrNone(attrs.ZONE)
                    /\ info.zone_description = AttributeOrNone(attrs.Z_DESC)
                    /\ info.zone_category = AttributeOrNone(attrs.Z_CATEGORY)
                    /\ info.title_22_url = AttributeOrNone(attrs.TITLE_22)

\* Two features, the first zoned R1 without a description, the second C2: the
\* result is R1's, with all four keys.
C4_Witness ==
    /\ zoning_info # <<>>
    /\ Answered
    /\ Len(query.answer.features.items) = 2
    /\ query.answer.features.items[1].attributes.ZONE = ZoneR1
    /\ query.answer.features.items[1].attributes.Z_DESC = JMissing
    /\ query.answer.features.items[2].attributes.ZONE = ZoneC2
    /\ zoning_info[1].ret # <<>>
    /\ zoning_info[1].ret[1].zone = ZoneR1
    /\ zoning_info[1].ret[1].zone_description = JNull

\* ------------------------------------------------------------------------
\* The API as a state machine: one request, served by its endpoint
\* ------------------------------------------------------------------------

\* The longest AIN list of a batch request.
MaxBatch == 2

AINs == {<<"A">>, <<"B">>}

\* A parcel with coordinates and the two subparts of 200 and 300 sqft.
LocatedParcel == [FullParcel EXCEPT !.SubParts = SubPartList(<<BaseSubPart, SecondSubPart>>)]

\* The bodies the assessor answers with: {}, {"Parcel": null}, {"Parcel": {}},
\* and parcels with full, zero, absent or null coordinates.
AssessorBodies ==
    {RawNoParcel, RawNullParcel, RawParcel(EmptyParcel), RawParcel(LocatedParcel),
     RawParcel([LocatedParcel EXCEPT !.Latitude = JInt(0), !.Longitude = JInt(0)]),
     RawParcel([LocatedParcel EXCEPT !.Longitude = JMissing]),
     RawParcel([LocatedParcel EXCEPT !.Latitude = JNull])}

AssessorAnswers ==
    {TransportFailure, ErrorStatus, BadJson} \cup {AssessorAnswer(b) : b \in AssessorBodies}

FeatureR1 == Feature(Attributes(ZoneR1, JStr(<<"R", "e", "s">>), JStr(<<"R">>), JStr(<<"u", "r", "l">>)))

FeatureC2 == Feature(Attributes(ZoneC2, JStr(<<"C", "o", "m">>), JStr(<<"C">>), JNull))

FeatureZoneOnly == Feature(Attributes(ZoneR1, JMissing, JMissing, JMissing))

GisAnswers ==
    {TransportFailure, ErrorStatus, BadJson, GisAnswer(NoFeatures), GisAnswer(FeatureList(<<>>)),
     GisAnswer(FeatureList(<<FeatureR1>>)), GisAnswer(FeatureList(<<FeatureC2, FeatureR1>>)),
     GisAnswer(FeatureList(<<FeatureZoneOnly>>))}

\* The answers drawn within a batch, fewer so that lists of AINs stay checkable.
BatchAssessorAnswers ==
    {TransportFailure, ErrorStatus, AssessorAnswer(RawNoParcel), AssessorAnswer(RawParcel(LocatedParcel))}

BatchGisAnswers == {TransportFailure, GisAnswer(FeatureList(<<>>)), GisAnswer(FeatureList(<<FeatureR1>>))}

AinLists == UNION {[1..n -> AINs] : n \in 0..MaxBatch}

Requests ==
    {[op |-> o, ains |-> <<a>>] : o \in {"parcel", "zoning", "combo"}, a \in AINs}
    \cup {[op |-> "batch", ains |-> l] : l \in AinLists}

Init ==
    /\ request \in Requests
    /\ pc = "serving"
    /\ calls = <<>>
    /\ results = <<>>
    /\ response = <<>>
    /\ PdbIdle /\ ResolverIdle /\ QueryIdle /\ ZimasIdle

\* response_model: "ain: str" is the one required field of ParcelSummary and of
\* ZoningSummary; every other field is Optional or has a default, and the
\* values drawn here conform to their types.
ParcelSummaryAccepts(data) == data.ain.t = "str"

ZoningSummaryAccepts(data) == data.ain.t = "str"

CombinedResponseAccepts(body) == ParcelSummaryAccepts(body.parcel) /\ ZoningSummaryAccepts(body.zoning)

ResponseModelAccepts(op, body) ==
    CASE op = "parcel" -> ParcelSummaryAccepts(body)
      [] op = "zoning" -> ZoningSummaryAccepts(body)
      [] op = "combo" -> CombinedResponseAccepts(body)

\* What FastAPI answers from what the endpoint function did: the HTTPException's
\* status and detail, the returned body, or 500 when the returned body fails
\* the response model.
Respond(op, outcome) ==
    IF outcome.status = 200 /\ ~ResponseModelAccepts(op, outcome.body[1])
    THEN [status |-> 500, body |-> <<>>, detail |-> <<"ResponseValidationError">>]
    ELSE [status |-> outcome.status, body |-> outcome.body, detail |-> outcome.detail]

\* The endpoint function has ended: the response goes out.
Served(outcome) ==
    /\ response' = <<Respond(request.op, outcome)>>
    /\ calls' = <<outcome.calls>>
    /\ pc' = "done"
    /\ UNCHANGED <<request, results, pdbVars, resolverVars, queryVars, zimasVars>>

\* GET /parcel/{ain}
GetParcelSummary ==
    /\ pc = "serving" /\ request.op = "parcel"
    /\ \E a \in AssessorAnswers : Served(get_parcel_summary(request.ains[1], a))

\* GET /zoning/{ain}
GetZoningSummary ==
    /\ pc = "serving" /\ request.op = "zoning"
    /\ \E a \in AssessorAnswers, g \in GisAnswers :
          Served(get_zoning_summary(request.ains[1], a, g))

\* GET /combo/{ain}
GetCombined ==
    /\ pc = "serving" /\ request.op = "combo"
    /\ \E a1 \in AssessorAnswers, a2 \in AssessorAnswers, g \in GisAnswers :
          Served(get_combined(request.ains[1], a1, a2, g))

\* The loop's state after a pass.
Passed(pass) ==
    /\ results' = pass.results
    /\ calls' = Append(calls, pass.calls)
    /\ UNCHANGED <<request, pc, response, pdbVars, resolverVars, queryVars, zimasVars>>

\* POST /combo/batch: one pass of "for ain in request.ains".
ComboBatchPass ==
    /\ pc = "serving" /\ request.op = "batch"
    /\ Len(calls) < Len(request.ains)
    /\ \E a1 \in BatchAssessorAnswers, a2 \in BatchAssessorAnswers, g \in BatchGisAnswers :
          Passed(BatchPass(results, request.ains[Len(calls) + 1], a1, a2, g))

\* POST /combo/batch: return {"results": results} after the loop.
ComboBatchReturn ==
    /\ pc = "serving" /\ request.op = "batch"
    /\ Len(calls) = Len(request.ains)
    /\ response' = <<[status |-> 200, body |-> <<[results |-> results]>>, detail |-> <<>>]>>
    /\ pc' = "done"
    /\ UNCHANGED <<request, calls, results, pdbVars, resolverVars, queryVars, zimasVars>>

Next ==
    \/ GetParcelSummary
    \/ GetZoningSummary
    \/ GetCombined
    \/ ComboBatchPass
    \/ ComboBatchReturn

Spec == Init /\ [][Next]_vars

\* ------------------------------------------------------------------------
\* Properties of the endpoints
\* ------------------------------------------------------------------------

Done == pc = "done" /\ response # <<>>

SingleLookup == request.op \in {"parcel", "zoning"}

\* The calls of the request (of a single operation: its one group).
TheCalls == calls[1]

CallFailed(c) == c.answer.kind \in {"status", "transport"}

\* The lookups of one batch item went through: the assessor answered both
\* times, the spatial query was made and answered.
LookupsSucceeded(group) ==
    /\ Len(group) = 3
    /\ \A k \in 1..3 : group[k].answer.kind = "ok"

SuccessForm(entry) == entry.parcel # <<>> /\ entry.zoning # <<>> /\ entry.error = <<>>

ErrorForm(entry) ==
    /\ entry.parcel = <<>> /\ entry.zoning = <<>>
    /\ entry.error # <<>> /\ entry.error[1] # <<>>

BatchEntries ==
    request.op = "batch" =>
        /\ Len(results) = Len(calls)
        /\ Len(results) <= Len(request.ains)
        /\ \A i \in 1..Len(results) :
              /\ results[i].ain = request.ains[i]
              /\ SuccessForm(results[i]) \/ ErrorForm(results[i])
              /\ SuccessForm(results[i]) <=> LookupsSucceeded(calls[i])
        /\ Done =>
              /\ Len(results) = Len(request.ains)
              /\ response[1].status = 200
              /\ response[1].body[1].results = results

EntriesKept ==
    /\ Len(results') >= Len(results)
    /\ \A i \in 1..Len(results) : results'[i] = results[i]

\* C7: combo_batch returns one entry per input AIN, in input order; entry i
\* carries the i-th AIN and has the success form (parcel and zoning, no error)
\* exactly when that AIN's own lookups went through, the error form (no parcel,
\* no zoning, a non-empty error) otherwise; an entry once appended is never
\* altered, and a failure does not end the loop.
C7_BatchOneEntryPerAin == [](BatchEntries) /\ [][EntriesKept]_vars

\* The batch ["A", "B"] is answered: A's entry has parcel and zoning, B's
\* upstream call failed and its entry has the error.
C7_Witness ==
    /\ Done
    /\ request.op = "batch"
    /\ request.ains = <<<<"A">>, <<"B">>>>
    /\ Len(results) = 2
    /\ results[1].ain = <<"A">> /\ SuccessForm(results[1])
    /\ \E k \in 1..Len(calls[2]) : CallFailed(calls[2][k])
    /\ results[2].ain = <<"B">> /\ ErrorForm(results[2])

\* The upstream call succeeded without a usable record: the assessor answered
\* with a body that holds no parcel object.
NoUsableRecord ==
    /\ TheCalls[1].answer.kind = "ok"
    /\ TheCalls[1].answer.body.Parcel.t # "obj"

\* C8: the single-parcel and single-zoning operations answer 404 whenever the
\* upstream call succeeded but returned no usable record.
C8_NoRecordIsNotFound ==
    (Done /\ SingleLookup /\ NoUsableRecord) => response[1].status = 404

\* C9: whenever an external call of the single-parcel or single-zoning
\* operation fails, by an error status or by a transport failure, the
\* operation answers 502.
C9_UpstreamFailureIsBadGateway ==
    (Done /\ SingleLookup /\ \E k \in 1..Len(TheCalls) : CallFailed(TheCalls[k])) =>
        response[1].status = 502

\* The zoning operation got a parcel record from the assessor.
ParcelRecordGiven ==
    /\ request.op = "zoning"
    /\ TheCalls[1].answer.kind = "ok"
    /\ TheCalls[1].answer.body.Parcel.t # "null"

TheRecord == ParcelOf(TheCalls[1].answer.body)

Absent(v) == v.t \in {"missing", "null"}

LacksCoordinates == Absent(TheRecord.Latitude) \/ Absent(TheRecord.Longitude)

\* C10: with a parcel record that lacks latitude or longitude the zoning
\* operation makes no spatial query and answers 400; with both present, a 0
\* included, it makes the spatial query at that point.
C10_CoordinatesRequired ==
    (Done /\ ParcelRecordGiven) =>
        /\ LacksCoordinates =>
              /\ Len(TheCalls) = 1
              /\ response[1].status = 400
        /\ ~LacksCoordinates =>
              /\ Len(TheCalls) = 2
              /\ TheCalls[2].to = "gis"
              /\ TheCalls[2].lat = TheRecord.Latitude
              /\ TheCalls[2].lon = TheRecord.Longitude

\* A record with a latitude and no longitude: only the assessor was called,
\* and the answer is 400.
C10_Witness ==
    /\ Done
    /\ ParcelRecordGiven
    /\ ~Absent(TheRecord.Latitude)
    /\ TheRecord.Longitude = JMissing
    /\ Len(TheCalls) = 1
    /\ response[1].status = 400

\* The zoning operation returned a ZoningSummary: the spatial query was made
\* and answered.
ZoningSummaryGiven ==
    /\ Done
    /\ request.op = "zoning"
    /\ response[1].status = 200

TheZoningSummary == response[1].body[1]

TheFeatures == FeaturesOf(TheCalls[2].answer)

GisAttributes(z) ==
    <<z.znet_zone, z.znet_zone_description, z.znet_zone_category, z.znet_title_22_url>>

AllNull(values) == \A i \in 1..Len(values) : values[i].t = "null"

NoneNull(values) == \A i \in 1..Len(values) : values[i].t # "null"

\* The four GIS attributes are all present when the spatial query matched a
\* polygon and all null when it matched none.
C13_Original_AllOrNothing ==
    ZoningSummaryGiven =>
        IF TheFeatures = <<>>
        THEN AllNull(GisAttributes(TheZoningSummary))
        ELSE NoneNull(GisAttributes(TheZoningSummary))

\* C13: the four GIS attributes of a ZoningSummary are all null when the
\* spatial query matched no polygon; when it matched, each holds the first
\* matched feature's attribute, null where the feature has none.
C13_GisAttributesOfFirstFeature ==
    ZoningSummaryGiven =>
        IF TheFeatures = <<>>
        THEN AllNull(GisAttributes(TheZoningSummary))
        ELSE GisAttributes(TheZoningSummary) =
                <<AttributeOrNone(TheFeatures[1].attributes.ZONE),
                  AttributeOrNone(TheFeatures[1].attributes.Z_DESC),
                  AttributeOrNone(TheFeatures[1].attributes.Z_CATEGORY),
                  AttributeOrNone(TheFeatures[1].attributes.TITLE_22)>>

\* The query matched the polygon zoned C2, which has no TITLE_22: the summary
\* holds its zone, description and category, and a null URL.
C13_Witness ==
    /\ ZoningSummaryGiven
    /\ TheFeatures # <<>>
    /\ TheFeatures[1] = FeatureC2
    /\ TheZoningSummary.znet_zone = ZoneC2
    /\ TheZoningSummary.znet_zone_description = FeatureC2.attributes.Z_DESC
    /\ TheZoningSummary.znet_title_22_url = JNull

\* The order of the external calls of a combined request.
CallOrder == <<"assessor", "assessor", "gis">>

Answered200(c) == c.answer.kind = "ok"

\* C18: a combined request makes its external calls once each in the order
\* assessor (parcel step), assessor (zoning step), GIS; a call that fails is
\* the last one and the request fails; missing coordinates at the zoning
\* step end the calls before the GIS query and the request fails.
C18_CallsOnceInOrder ==
    (Done /\ request.op = "combo") =>
        /\ Len(TheCalls) \in 1..3
        /\ \A k \in 1..Len(TheCalls) :
              /\ TheCalls[k].to = CallOrder[k]
              /\ TheCalls[k].to = "assessor" => TheCalls[k].ain = request.ains[1]
              /\ ~Answered200(TheCalls[k]) =>
                    /\ k = Len(TheCalls)
                    /\ response[1].status # 200
        /\ (Len(TheCalls) >= 2 /\ Answered200(TheCalls[2])
              /\ TheCalls[2].answer.body.Parcel.t # "null"
              /\ \/ Absent(ParcelOf(TheCalls[2].answer.body).Latitude)
                 \/ Absent(ParcelOf(TheCalls[2].answer.body).Longitude)) =>
              /\ Len(TheCalls) = 2
              /\ response[1].status # 200
        /\ response[1].status = 200 => Len(TheCalls) = 3

\* The parcel step's assessor call was answered, the zoning step's got an
\* error status: two calls, no GIS query, and the answer is 502.
C18_Witness ==
    /\ Done
    /\ request.op = "combo"
    /\ Len(TheCalls) = 2
    /\ Answered200(TheCalls[1])
    /\ TheCalls[2].answer = ErrorStatus
    /\ response[1].status = 502

\* ------------------------------------------------------------------------
\* The table of one section as a state machine
\* ------------------------------------------------------------------------

\* The longest table of a section.
MaxTableRows == 3

\* Labels that normalize to A, to A_2 (three ways) and to B, and a blank one.
Labels == {<<"A">>, <<" ", "A", ":">>, <<"A", " ", "2">>, <<"A", "(", "2", ")">>, <<"B">>, <<" ">>}

CellValues == {<<"x">>, <<"y", " ">>, <<>>}

\* Rows of two cells, and a row of one.
TableRows == {<<l, v>> : l \in Labels, v \in CellValues} \cup {<<<<"A">>>>}

Tables == UNION {[1..n -> TableRows] : n \in 0..MaxTableRows}

InitRows ==
    /\ table \in Tables
    /\ section = <<>>
    /\ PdbIdle /\ ResolverIdle /\ QueryIdle /\ ApiIdle /\ ScraperIdle

\* The rows of the section's frame are read into data.
ScrapeSection ==
    /\ section = <<>>
    /\ section' = <<SectionData(table)>>
    /\ UNCHANGED <<table, address, site, scraped, files, clock, pdbVars, resolverVars,
                   queryVars, apiVars>>

NextRows == ScrapeSection

SpecRows == InitRows /\ [][NextRows]_vars

\* The rows that are stored: two cells or more, label and value not blank.
Stored(cells) == Len(cells) >= 2 /\ Strip(cells[1]) # <<>> /\ Strip(cells[2]) # <<>>

StoredRows == {i \in 1..Len(table) : Stored(table[i])}

\* How many stored rows up to row i have the key of row i.
Occurrence(i) ==
    Cardinality({j \in StoredRows : j <= i /\
                    _normalize_label(Strip(table[j][1])) = _normalize_label(Strip(table[i][1]))})

\* The key the claim gives row i: its normalized label, with _k when it is
\* the k-th row of that label, k > 1.
SuffixedKey(i) ==
    IF Occurrence(i) = 1 THEN _normalize_label(Strip(table[i][1]))
    ELSE _normalize_label(Strip(table[i][1])) \o <<"_">> \o NatToStr(Occurrence(i))

\* C16: within one section every row with a non-empty label and value is
\* stored under its own key, the normalized label with the suffix _k for its
\* k-th occurrence: the mapping has as many entries as there are such rows,
\* and each row's value is the one under its key.
C16_EveryRowUnderItsOwnKey ==
    section # <<>> =>
        /\ Cardinality(DOMAIN section[1]) = Cardinality(StoredRows)
        /\ \A i \in StoredRows :
              /\ SuffixedKey(i) \in DOMAIN section[1]
              /\ section[1][SuffixedKey(i)] = Strip(table[i][2])

\* ------------------------------------------------------------------------
\* scrape_zimas_ultra as a state machine: one call
\* ------------------------------------------------------------------------

\* A row of a ZIMAS table: the label cell and the value cell.
TableRow(label, value) == <<label, value>>

\* The table of the Jurisdictional tab, with every row the remap reads.
FullTable1 ==
    <<TableRow(<<"C", "o", "m", "m", "u", "n", "i", "t", "y", " ", "P", "l", "a", "n", " ", "A",
               "r", "e", "a">>,
               <<"V", "0", "1">>),
      TableRow(<<"O", "t", "h", "e", "r">>, <<"x">>),
      <<<<"J", "u", "r", "i", "s", "d", "i", "c", "t", "i", "o", "n", "a", "l">>>>>>

\* The table of the Planning and Zoning tab, with every row the remap reads.
FullTable2 ==
    <<TableRow(<<"G", "e", "n", "e", "r", "a", "l", " ", "P", "l", "a", "n", " ", "L", "a", "n",
               "d", " ", "U", "s", "e">>,
               <<"V", "0", "2">>),
      TableRow(<<"S", "p", "e", "c", "i", "f", "i", "c", " ", "P", "l", "a", "n", " ", "A", "r",
               "e", "a">>,
               <<" ", "V", "0", "3", " ">>),
      TableRow(<<"H", "i", "g", "h", " ", "Q", "u", "a", "l", "i", "t", "y", " ", "T", "r", "a",
               "n", "s", "i", "t", " ", "C", "o", "r", "r", "i", "d", "o", "r", " ", "(", "w",
               "i", "t", "h", "i", "n", " ", "1", "/", "2", " ", "m", "i", "l", "e", ")", " ">>,
               <<"V", "0", "4">>),
      TableRow(<<"H", "i", "l", "l", "s", "i", "d", "e", " ", "A", "r", "e", "a", " ", "(", "Z",
               "o", "n", "i", "n", "g", " ", "C", "o", "d", "e", ")">>,
               <<"V", "0", "5">>),
      TableRow(<<"S", "p", "e", "c", "i", "a", "l", " ", "L", "a", "n", "d", " ", "U", "s", "e",
               " ", "/", " ", "Z", "o", "n", "i", "n", "g">>,
               <<" ", "V", "0", "6", " ">>),
      TableRow(<<"H", "i", "s", "t", "o", "r", "i", "c", " ", "P", "r", "e", "s", "e", "r", "v",
               "a", "t", "i", "o", "n", " ", "R", "e", "v", "i", "e", "w">>,
               <<"V", "0", "7">>),
      TableRow(<<"H", "i", "s", "t", "o", "r", "i", "c", "P", "l", "a", "c", "e", "s", "L", "A",
               " ">>,
               <<"V", "0", "8">>),
      TableRow(<<"C", "D", "O", ":", " ", "C", "o", "m", "m", "u", "n", "i", "t", "y", " ", "D",
               "e", "s", "i", "g", "n", " ", "O", "v", "e", "r", "l", "a", "y">>,
               <<" ", "V", "0", "9", " ">>),
      TableRow(<<"R", "F", "A", ":", " ", "R", "e", "s", "i", "d", "e", "n", "t", "i", "a", "l",
               " ", "F", "l", "o", "o", "r", " ", "A", "r", "e", "a", " ", "D", "i", "s", "t",
               "r", "i", "c", "t">>,
               <<"V", "1", "0">>),
      TableRow(<<"O", "t", "h", "e", "r">>, <<"x">>),
      <<<<"P", "l", "a", "n", "n", "i", "n", "g", " ", "a", "n", "d", " ", "Z", "o", "n", "i", "n", "g">>>>>>

\* The table of the Additional tab, with every row the remap reads.
FullTable3 ==
    <<TableRow(<<"F", "l", "o", "o", "d", " ", "Z", "o", "n", "e">>,
               <<"V", "1", "1">>),
      TableRow(<<"A", "i", "r", "p", "o", "r", "t", " ", "H", "a", "z", "a", "r", "d", " ">>,
               <<" ", "V", "1", "2", " ">>),
      TableRow(<<"C", "o", "a", "s", "t", "a", "l", " ", "Z", "o", "n", "e">>,
               <<"V", "1", "3">>),
      TableRow(<<"V", "e", "r", "y", " ", "H", "i", "g", "h", " ", "F", "i", "r", "e", " ", "H",
               "a", "z", "a", "r", "d", " ", "S", "e", "v", "e", "r", "i", "t", "y", " ", "Z",
               "o", "n", "e">>,
               <<"V", "1", "4">>),
      TableRow(<<"S", "p", "e", "c", "i", "a", "l", " ", "G", "r", "a", "d", "i", "n", "g", " ",
               "A", "r", "e", "a", " ", "(", "B", "O", "E", " ", "B", "a", "s", "i", "c", " ",
               "G", "r", "i", "d", " ", "M", "a", "p", " ", "A", "-", "1", "3", "3", "7", "2",
               ")">>,
               <<" ", "V", "1", "5", " ">>),
      TableRow(<<"O", "t", "h", "e", "r">>, <<"x">>),
      <<<<"A", "d", "d", "i", "t", "i", "o", "n", "a", "l">>>>>>

\* The table of the Environmental tab, with every row the remap reads.
FullTable4 ==
    <<TableRow(<<"W", "i", "l", "d", "l", "a", "n", "d", " ", "U", "r", "b", "a", "n", " ", "I",
               "n", "t", "e", "r", "f", "a", "c", "e", " ", "(", "W", "U", "I", ")", " ">>,
               <<"V", "1", "6">>),
      TableRow(<<"O", "t", "h", "e", "r">>, <<"x">>),
      <<<<"E", "n", "v", "i", "r", "o", "n", "m", "e", "n", "t", "a", "l">>>>>>

\* The table of the Seismic Hazards tab, with every row the remap reads.
FullTable5 ==
    <<TableRow(<<"L", "i", "q", "u", "e", "f", "a", "c", "t", "i", "o", "n">>,
               <<"V", "1", "7">>),
      TableRow(<<"A", "l", "q", "u", "i", "s", "t", "-", "P", "r", "i", "o", "l", "o", " ", "F",
               "a", "u", "l", "t", " ", "Z", "o", "n", "e">>,
               <<" ", "V", "1", "8", " ">>),
      TableRow(<<"O", "t", "h", "e", "r">>, <<"x">>),
      <<<<"S", "e", "i", "s", "m", "i", "c", " ", "H", "a", "z", "a", "r", "d", "s">>>>>>

FullTables == <<FullTable1, FullTable2, FullTable3, FullTable4, FullTable5>>

\* A frame: what its body holds, and the rows of its table.
Frame(body, tableRows) == [body |-> body, rows |-> tableRows]

\* What a section's tab shows. Shown: the table is in an inner frame whose body
\* holds a keyword; Hidden: the tab is not visible; Sparse: the main frame
\* holds the first row of the table only, and no frame holds a keyword.
ShownSection(k) ==
    [tab |-> "visible", frames |-> <<Frame("other", <<>>), Frame("raises", <<>>),
                                     Frame("keyword", FullTables[k])>>]

HiddenSection(k) == [tab |-> "hidden", frames |-> <<Frame("keyword", FullTables[k])>>]

SparseSection(k) ==
    [tab |-> "visible", frames |-> <<Frame("other", <<FullTables[k][1]>>), Frame("other", FullTables[k])>>]

SectionValues(k) == {ShownSection(k), HiddenSection(k), SparseSection(k)}

\* The site where nothing fails: no consent button is visible, every tab shows
\* its table.
BaseSite ==
    [fails |-> "none", failSection |-> 0, closes |-> <<"returns", "returns">>,
     popup |-> <<"hidden", "hidden", "hidden">>, evaluate |-> "ok", link |-> "visible",
     sections |-> [k \in 1..Len(SECTIONS) |-> ShownSection(k)]]

\* Sites that differ in what the tabs show.
SitesBySections ==
    {[BaseSite EXCEPT !.sections = <<s1, s2, s3, s4, s5>>] :
        s1 \in SectionValues(1), s2 \in SectionValues(2), s3 \in SectionValues(3),
        s4 \in SectionValues(4), s5 \in SectionValues(5)}

CallsThatMayFail ==
    {"launch", "new_context", "new_page", "goto", "fill_house", "fill_street", "click_search",
     "export_open", "export_write"}

SectionCallsThatMayFail == {"tab", "tab_click", "rows"}

CloseBehaviours == [1..2 -> {"returns", "raises"}]

\* Sites where one Playwright call raises, or none, and close() returns or raises.
SitesByFailure ==
    {[BaseSite EXCEPT !.fails = f, !.closes = c] : f \in CallsThatMayFail \cup {"none"}, c \in CloseBehaviours}
    \cup {[BaseSite EXCEPT !.fails = f, !.failSection = k, !.closes = c] :
            f \in SectionCallsThatMayFail, k \in 1..Len(SECTIONS), c \in CloseBehaviours}

SelectorBehaviours == {"hidden", "raises", "click_raises", "accepts"}

\* Sites that differ in what the consent dialog does.
SitesByPopup ==
    {[BaseSite EXCEPT !.popup = sel, !.evaluate = ev, !.link = l] :
        sel \in [1..3 -> SelectorBehaviours], ev \in {"ok", "raises"}, l \in {"visible", "hidden", "raises"}}

Sites == SitesBySections \cup SitesByFailure \cup SitesByPopup

Address(house_number, street_name) == [house_number |-> house_number, street_name |-> street_name]

House12 == <<"1", "2">>

MainSt == <<"M", "a", "i", "n", " ", "S", "t">>

MainStreet == <<"m", "a", "i", "n", " ", "s", "t", "r", "e", "e", "t", " ">>

OakAve == <<" ", "O", "A", "K", " ", "a", "v", "e">>

Addresses == {Address(House12, MainSt), Address(House12, MainStreet), Address(<<"7">>, OakAve)}

InitZimas ==
    /\ address \in Addresses
    /\ site = NoSite
    /\ scraped = <<>>
    /\ files = EmptyDict
    /\ clock = 0
    /\ PdbIdle /\ ResolverIdle /\ QueryIdle /\ ApiIdle /\ RowsIdle

\* The call has ended: its outcome and the files it leaves.
Ended(a, st, outcome) ==
    /\ address' = a
    /\ site' = st
    /\ scraped' = <<outcome>>
    /\ files' = outcome.files
    /\ UNCHANGED <<clock, table, section, pdbVars, resolverVars, queryVars, apiVars>>

\* scrape_zimas_ultra(house_number, street_name) on one of the sites.
ScrapeZimasUltra ==
    /\ scraped = <<>>
    /\ \E st \in Sites :
          Ended(address, st,
                scrape_zimas_ultra(address.house_number, address.street_name, clock, files, st))

NextZimas == ScrapeZimasUltra

SpecZimas == InitZimas /\ [][NextZimas]_vars

\* Where ZIMAS shows each remapped attribute: the tab (its place in SECTIONS)
\* and the label of the table row, as displayed.
ShownAt ==
    <<[attr |-> "General_Plan_Land_Use", sec |-> 2,
       label |-> <<"G", "e", "n", "e", "r", "a", "l", " ", "P", "l", "a", "n", " ", "L", "a",
                "n", "d", " ", "U", "s", "e">>],
      [attr |-> "Community_Plan_Area", sec |-> 1,
       label |-> <<"C", "o", "m", "m", "u", "n", "i", "t", "y", " ", "P", "l", "a", "n", " ",
                "A", "r", "e", "a">>],
      [attr |-> "Liquefaction_Zone", sec |-> 5,
       label |-> <<"L", "i", "q", "u", "e", "f", "a", "c", "t", "i", "o", "n">>],
      [attr |-> "Flood_Zone", sec |-> 3,
       label |-> <<"F", "l", "o", "o", "d", " ", "Z", "o", "n", "e">>],
      [attr |-> "Specific_Plan", sec |-> 2,
       label |-> <<"S", "p", "e", "c", "i", "f", "i", "c", " ", "P", "l", "a", "n", " ", "A",
                "r", "e", "a">>],
      [attr |-> "High_Quality_Transit_Corridor_within_half_mile", sec |-> 2,
       label |-> <<"H", "i", "g", "h", " ", "Q", "u", "a", "l", "i", "t", "y", " ", "T", "r",
                "a", "n", "s", "i", "t", " ", "C", "o", "r", "r", "i", "d", "o", "r", " ", "(",
                "w", "i", "t", "h", "i", "n", " ", "1", "/", "2", " ", "m", "i", "l", "e", ")">>],
      [attr |-> "Alquist_Priolo_Fault_Zone", sec |-> 5,
       label |-> <<"A", "l", "q", "u", "i", "s", "t", "-", "P", "r", "i", "o", "l", "o", " ",
                "F", "a", "u", "l", "t", " ", "Z", "o", "n", "e">>],
      [attr |-> "Hillside_Area_Zoning_Code", sec |-> 2,
       label |-> <<"H", "i", "l", "l", "s", "i", "d", "e", " ", "A", "r", "e", "a", " ", "(",
                "Z", "o", "n", "i", "n", "g", " ", "C", "o", "d", "e", ")">>],
      [attr |-> "Special_Land_Use_or_Zoning", sec |-> 2,
       label |-> <<"S", "p", "e", "c", "i", "a", "l", " ", "L", "a", "n", "d", " ", "U", "s",
                "e", " ", "/", " ", "Z", "o", "n", "i", "n", "g">>],
      [attr |-> "Historic_Preservation_Review", sec |-> 2,
       label |-> <<"H", "i", "s", "t", "o", "r", "i", "c", " ", "P", "r", "e", "s", "e", "r",
                "v", "a", "t", "i", "o", "n", " ", "R", "e", "v", "i", "e", "w">>],
      [attr |-> "HistoricPlacesLA", sec |-> 2,
       label |-> <<"H", "i", "s", "t", "o", "r", "i", "c", "P", "l", "a", "c", "e", "s", "L",
                "A">>],
      [attr |-> "CDO_Community_Design_Overlay", sec |-> 2,
       label |-> <<"C", "D", "O", ":", " ", "C", "o", "m", "m", "u", "n", "i", "t", "y", " ",
                "D", "e", "s", "i", "g", "n", " ", "O", "v", "e", "r", "l", "a", "y">>],
      [attr |-> "RFA_Residential_Floor_Area_District", sec |-> 2,
       label |-> <<"R", "F", "A", ":", " ", "R", "e", "s", "i", "d", "e", "n", "t", "i", "a",
                "l", " ", "F", "l", "o", "o", "r", " ", "A", "r", "e", "a", " ", "D", "i", "s",
                "t", "r", "i", "c", "t">>],
      [attr |-> "Airport_Hazard", sec |-> 3,
       label |-> <<"A", "i", "r", "p", "o", "r", "t", " ", "H", "a", "z", "a", "r", "d">>],
      [attr |-> "Coastal_Zone", sec |-> 3,
       label |-> <<"C", "o", "a", "s", "t", "a", "l", " ", "Z", "o", "n", "e">>],
      [attr |-> "Very_High_Fire_Hazard_Severity_Zone", sec |-> 3,
       label |-> <<"V", "e", "r", "y", " ", "H", "i", "g", "h", " ", "F", "i", "r", "e", " ",
                "H", "a", "z", "a", "r", "d", " ", "S", "e", "v", "e", "r", "i", "t", "y", " ",
                "Z", "o", "n", "e">>],
      [attr |-> "Special_Grading_Area", sec |-> 3,
       label |-> <<"S", "p", "e", "c", "i", "a", "l", " ", "G", "r", "a", "d", "i", "n", "g",
                " ", "A", "r", "e", "a", " ", "(", "B", "O", "E", " ", "B", "a", "s", "i", "c",
                " ", "G", "r", "i", "d", " ", "M", "a", "p", " ", "A", "-", "1", "3", "3", "7",
                "2", ")">>],
      [attr |-> "Wildland_Urban_Interface_WUI", sec |-> 4,
       label |-> <<"W", "i", "l", "d", "l", "a", "n", "d", " ", "U", "r", "b", "a", "n", " ",
                "I", "n", "t", "e", "r", "f", "a", "c", "e", " ", "(", "W", "U", "I", ")">>]>>

Called == scraped # <<>>

TheOutcome == scraped[1]

HasReturned == Called /\ TheOutcome.ret # <<>>

TheReturn == TheOutcome.ret[1]

IsRecord(r) == r.Overlay_Zones_Data # <<>>

IsErrorDescriptor(r) == r._error # <<>>

Started(step) == \E i \in 1..Len(TheOutcome.trace) : TheOutcome.trace[i] = step

\* C11: every call of scrape_zimas_ultra returns, and never raises: a record
\* (Overlay_Zones_Data, no _error) or an error descriptor (_error, no
\* Overlay_Zones_Data), with the _debug context that echoes the house number
\* and the street name.
C11_ReturnsRecordOrErrorDescriptor ==
    Called =>
        /\ TheOutcome.raised = "none"
        /\ HasReturned
        /\ IsRecord(TheReturn) # IsErrorDescriptor(TheReturn)
        /\ TheReturn._debug # <<>>
        /\ TheReturn._debug[1].house_number = address.house_number
        /\ TheReturn._debug[1].street_name_input = address.street_name

BrowserLaunched == Called /\ Started("launch") /\ TheOutcome.browser # "none"

\* C12: when the browser was launched, it has been closed by browser.close()
\* by the time the call ends, and close() was called exactly once.
C12_BrowserClosedExactlyOnce ==
    BrowserLaunched =>
        /\ TheOutcome.browser = "closed"
        /\ TheOutcome.closeCalls = 1

\* C14: whatever happens inside handle_terms_popup, the call goes on to fill
\* the address fields.
C14_PopupNeverFatal ==
    (Called /\ Started("handle_terms_popup")) => Started("fill_house")

RecordReturned == HasReturned /\ IsRecord(TheReturn)

TheCleanRecord == TheReturn.Overlay_Zones_Data[1]

AttributeNames ==
    {"General_Plan_Land_Use", "Occupancy", "Community_Plan_Area", "Liquefaction_Zone", "Flood_Zone",
     "Specific_Plan", "High_Quality_Transit_Corridor_within_half_mile", "California_Building_Codes",
     "Alquist_Priolo_Fault_Zone", "Hillside_Area_Zoning_Code", "Special_Land_Use_or_Zoning",
     "Historic_Preservation_Review", "HistoricPlacesLA", "CDO_Community_Design_Overlay",
     "RFA_Residential_Floor_Area_District", "Airport_Hazard", "Coastal_Zone",
     "Very_High_Fire_Hazard_Severity_Zone", "Special_Grading_Area", "Wildland_Urban_Interface_WUI"}

\* The rows the page shows for section k: none when the tab is not visible.
RowsShown(k) ==
    IF site.sections[k].tab = "visible" THEN ChosenFrame(site.sections[k].frames, 1).rows ELSE <<>>

RowsLabelled(k, label) ==
    {i \in 1..Len(RowsShown(k)) : Len(RowsShown(k)[i]) >= 2 /\ Strip(RowsShown(k)[i][1]) = label}

\* The value shown for an attribute, "Not found" when its row is not shown.
ValueShown(place) ==
    IF RowsLabelled(place.sec, place.label) = {} THEN NotFound
    ELSE Strip(RowsShown(place.sec)[CHOOSE i \in RowsLabelled(place.sec, place.label) :
                                       \A j \in RowsLabelled(place.sec, place.label) : i <= j][2])

SectionsVisited == Cardinality({i \in 1..Len(TheOutcome.trace) : TheOutcome.trace[i] = "section"})

Remapped(attr) == \E i \in 1..Len(ShownAt) : ShownAt[i].attr = attr

\* Every attribute of the record holds the value scraped at its section and
\* key, or "Not found".
C15_Original_EveryAttributeScrapedOrNotFound ==
    RecordReturned =>
        /\ DOMAIN TheCleanRecord = AttributeNames
        /\ \A i \in 1..Len(ShownAt) : TheCleanRecord[ShownAt[i].attr] = ValueShown(ShownAt[i])
        /\ \A attr \in AttributeNames : ~Remapped(attr) => TheCleanRecord[attr] = NotFound

\* C15: every record has the same twenty attributes; each of the eighteen
\* remapped ones holds the value shown in its section under its label, or
\* "Not found" when that row is not shown or the section's tab is not visible;
\* Occupancy and California_Building_Codes always hold "Not listed in ZIMAS";
\* all five sections are visited.
C15_RemappedOrNotFound ==
    RecordReturned =>
        /\ DOMAIN TheCleanRecord = AttributeNames
        /\ \A i \in 1..Len(ShownAt) : TheCleanRecord[ShownAt[i].attr] = ValueShown(ShownAt[i])
        /\ \A attr \in AttributeNames : ~Remapped(attr) => TheCleanRecord[attr] = NotListed
        /\ SectionsVisited = Len(SECTIONS)

\* The Planning and Zoning tab was not visible, the others showed their tables:
\* the record holds "Not found" for the land use and the value shown for the
\* community plan area and for the fault zone of the last section.
C15_Witness ==
    /\ RecordReturned
    /\ site.sections[2].tab = "hidden"
    /\ site.sections[1] = ShownSection(1)
    /\ site.sections[5] = ShownSection(5)
    /\ TheCleanRecord.General_Plan_Land_Use = NotFound
    /\ TheCleanRecord.Community_Plan_Area = Strip(FullTable1[1][2])
    /\ TheCleanRecord.Alquist_Priolo_Fault_Zone # NotFound

\* ------------------------------------------------------------------------
\* scrape_zimas_ultra as a state machine: call after call, and the clock
\* ------------------------------------------------------------------------

\* The last second of the clock.
MaxClock == 1

\* The same house on the same street, written in two ways.
ArtifactAddresses == {Address(House12, MainSt), Address(House12, MainStreet)}

\* Sites that show every table, or all but one; a site where the page does not
\* load, and one where the writer fails.
ArtifactSites ==
    {BaseSite, [BaseSite EXCEPT !.sections[2] = HiddenSection(2)],
     [BaseSite EXCEPT !.fails = "goto"], [BaseSite EXCEPT !.fails = "export_write"]}

InitArtifacts ==
    /\ address = Address(<<>>, <<>>)
    /\ site = NoSite
    /\ scraped = <<>>
    /\ files = EmptyDict
    /\ clock = 0
    /\ PdbIdle /\ ResolverIdle /\ QueryIdle /\ ApiIdle /\ RowsIdle

\* One more call of scrape_zimas_ultra, at the second the clock is in.
Invoke ==
    \E a \in ArtifactAddresses, st \in ArtifactSites :
        Ended(a, st, scrape_zimas_ultra(a.house_number, a.street_name, clock, files, st))

\* A second passes.
Tick ==
    /\ clock < MaxClock
    /\ clock' = clock + 1
    /\ UNCHANGED <<address, site, scraped, files, table, section, pdbVars, resolverVars,
                   queryVars, apiVars>>

NextArtifacts == Invoke \/ Tick

SpecArtifacts == InitArtifacts /\ [][NextArtifacts]_vars

\* The call that just ended left its row in a file named by its address and
\* the second it ran in.
OwnArtifactWritten ==
    RecordReturned =>
        \E name \in DOMAIN files :
            files[name] = <<[House_Number |-> address.house_number,
                             Street_Name |-> address.street_name, clean |-> TheCleanRecord]>>

\* Every file there is stays as it is.
ArtifactsKept == \A name \in DOMAIN files : name \in DOMAIN files' /\ files'[name] = files[name]

\* C17: every successful call persists its result as a file of its own, and
\* no later call changes or replaces a file written before.
C17_ArtifactsImmutable == [](OwnArtifactWritten) /\ [][ArtifactsKept]_vars

====
